---------------------------- MODULE Spec2Model ----------------------------
(***************************************************************************)
(* A model of the World Athletics scoring-table extractor                  *)
(* (tools/scoring-table-extractor/index.js with its events-config.js) and  *)
(* of the loader of its output in the web pages                            *)
(* (web/src/js/data/scoring-data-loader.js).                               *)
(*                                                                         *)
(* Strings are TLA+ strings; a character is a string of length 1.  The     *)
(* regular expressions of the source are written out as matchers over      *)
(* positions of a string: a matcher maps a set of start positions to the   *)
(* set of positions at which a match may end.                              *)
(*                                                                         *)
(* Specifications: SpecNorm applies normalizeEventName to a descriptor and *)
(* to its result, SpecTok applies the row reconstruction to one token,     *)
(* SpecHead applies detectTableHeaders to one line, SpecSection applies    *)
(* detectSection to one line, SpecRow applies                              *)
(* parseCrossReferencedRow to one line, SpecStore parses and stores one    *)
(* line of a table, SpecExport is the export at the end of a run over the  *)
(* file at the output path, and Spec is runs of the tool: the scan of a    *)
(* text line by line, the export (with or without the merge of the file   *)
(* at the output path), and further runs over the files the earlier ones   *)
(* left.  SpecTable is the scan over lines whose headers hold descriptors  *)
(* that are no events.  SpecLoad is the loader under calls of load() and   *)
(* the responses of its fetches, SpecLoader adds calls of clear().         *)
(***************************************************************************)
EXTENDS Integers, Sequences, FiniteSets, TLC

(***************************************************************************)
(* Characters and strings                                                  *)
(***************************************************************************)

\* the characters i..j of s that exist (String.prototype.substring, 1-based, j included)
Slice(s, i, j) ==
    LET a == IF i < 1 THEN 1 ELSE i
        b == IF j > Len(s) THEN Len(s) ELSE j
    IN  IF a > b THEN "" ELSE SubSeq(s, a, b)

\* F of the value of v, v evaluated once however often F uses its argument
Once(F(_), v) == CHOOSE r \in {F(x) : x \in {v}} : TRUE

\* s[i] as a one-character string; "" outside the string
Ch(s, i) == Slice(s, i, i)

\* String.prototype.substring(from) with 1-based from
From(s, i) == Slice(s, i, Len(s))

Digit == {"0", "1", "2", "3", "4", "5", "6", "7", "8", "9"}

UpperLetters == "ABCDEFGHIJKLMNOPQRSTUVWXYZ"

LowerLetters == "abcdefghijklmnopqrstuvwxyz"

\* \s of a JavaScript regular expression, within one line of text
IsSpace(c) == c \in {" ", "\t"}

IsDigit(c) == c \in Digit

IsLetter(c) == \E i \in 1..26 : c = Ch(UpperLetters, i) \/ c = Ch(LowerLetters, i)

\* \w of a JavaScript regular expression
IsWordChar(c) == IsDigit(c) \/ IsLetter(c) \/ c = "_"

\* \b at position p: between s[p-1] and s[p]
WordBoundary(s, p) == IsWordChar(Ch(s, p - 1)) # IsWordChar(Ch(s, p))

LowerChar(c) ==
    IF \E i \in 1..26 : c = Ch(UpperLetters, i)
    THEN Ch(LowerLetters, CHOOSE i \in 1..26 : c = Ch(UpperLetters, i))
    ELSE c

RECURSIVE ToLowerCase(_)
ToLowerCase(s) ==
    IF s = "" THEN "" ELSE LowerChar(Ch(s, 1)) \o ToLowerCase(From(s, 2))

\* String.prototype.includes
Includes(s, sub) ==
    \E i \in 1..(Len(s) - Len(sub) + 1) : Slice(s, i, i + Len(sub) - 1) = sub

\* String.prototype.indexOf(sub, from), 1-based; 0 when absent
IndexOf(s, sub, from) ==
    LET hits == {i \in from..(Len(s) - Len(sub) + 1) :
                    Slice(s, i, i + Len(sub) - 1) = sub}
    IN  IF hits = {} THEN 0 ELSE CHOOSE i \in hits : \A j \in hits : i <= j

RECURSIVE TrimStart(_)
TrimStart(s) == IF s # "" /\ IsSpace(Ch(s, 1)) THEN TrimStart(From(s, 2)) ELSE s

RECURSIVE TrimEnd(_)
TrimEnd(s) ==
    IF s # "" /\ IsSpace(Ch(s, Len(s))) THEN TrimEnd(Slice(s, 1, Len(s) - 1)) ELSE s

\* String.prototype.trim
Trim(s) == TrimEnd(TrimStart(s))

\* s.replace(/\s+/g, ' ')
RECURSIVE CollapseSpaces(_)
CollapseSpaces(s) ==
    IF s = "" THEN ""
    ELSE IF IsSpace(Ch(s, 1))
         THEN " " \o CollapseSpaces(TrimStart(s))
         ELSE Ch(s, 1) \o CollapseSpaces(From(s, 2))

\* s.split(/\s+/).filter(col => col.trim())
RECURSIVE SplitWhitespace(_)
SplitWhitespace(s) ==
    LET t == TrimStart(s)
        stops == {i \in 1..Len(t) : IsSpace(Ch(t, i))}
        stop == IF stops = {} THEN Len(t) + 1
                ELSE CHOOSE i \in stops : \A j \in stops : i <= j
    IN  IF t = "" THEN <<>>
        ELSE <<Slice(t, 1, stop - 1)>> \o SplitWhitespace(From(t, stop))

\* s.replace(/\./g, '')
RECURSIVE RemovePeriods(_)
RemovePeriods(s) ==
    IF s = "" THEN ""
    ELSE (IF Ch(s, 1) = "." THEN "" ELSE Ch(s, 1)) \o RemovePeriods(From(s, 2))

(***************************************************************************)
(* Regular-expression matchers: from a set P of start positions to the set *)
(* of end positions                                                        *)
(***************************************************************************)

\* a literal
Lit(s, P, lit) ==
    {p + Len(lit) : p \in {q \in P : Slice(s, q, q + Len(lit) - 1) = lit}}

\* one of several literals: (a|b|c)
AnyLit(s, P, lits) == UNION {Lit(s, P, l) : l \in lits}

\* \d+
Digits1(s, P) ==
    UNION {{q \in (p + 1)..(Len(s) + 1) : \A k \in p..(q - 1) : IsDigit(Ch(s, k))} :
           p \in P}

\* \s+
Spaces1(s, P) ==
    UNION {{q \in (p + 1)..(Len(s) + 1) : \A k \in p..(q - 1) : IsSpace(Ch(s, k))} :
           p \in P}

\* \d+(?:\.\d+)?
Number(s, P) == Digits1(s, P) \cup Digits1(s, Lit(s, Digits1(s, P), "."))

\* \b
AtBoundary(s, P) == {p \in P : WordBoundary(s, p)}

\* $ (no multiline flag)
AtEnd(s, P) == {p \in P : p = Len(s) + 1}

\* the modifier group (h|sh|sc|w)
ModifierTokens == {"h", "sh", "sc", "w"}

\* (\s+(h|sh|sc|w))?
OptModifier(s, P) == P \cup AnyLit(s, Spaces1(s, P), ModifierTokens)

(***************************************************************************)
(* normalizeEventName                                                      *)
(***************************************************************************)

\* an optional value: <<>> is null, <<v>> is the value v
Null == <<>>

Some(v) == <<v>>

\* exactly n digits: \d{n}
RECURSIVE DigitsN(_, _, _)
DigitsN(s, P, n) ==
    IF n = 0 THEN P
    ELSE DigitsN(s, {p + 1 : p \in {q \in P : IsDigit(Ch(s, q))}}, n - 1)

\* the same test without the i flag: /^\d{1,2},\d{3}mw$/
IsCommaWalkCaseSensitive(s) ==
    LET lead == DigitsN(s, {1}, 1) \cup DigitsN(s, {1}, 2)
    IN  AtEnd(s, Lit(s, DigitsN(s, Lit(s, lead, ","), 3), "mw")) # {}

\* /^\d{1,2},\d{3}mw$/i
IsCommaWalk(s) ==
    LET l == ToLowerCase(s)
        lead == DigitsN(l, {1}, 1) \cup DigitsN(l, {1}, 2)
    IN  AtEnd(l, Lit(l, DigitsN(l, Lit(l, lead, ","), 3), "mw")) # {}

\* s.replace(/mw$/i, 'mW'), for s ending in mw in any case
FixWalkMarker(s) == Slice(s, 1, Len(s) - 2) \o "mW"

\* s.replace(/\bmiles\b/g, 'mile')
RECURSIVE ReplaceMilesFrom(_, _)
ReplaceMilesFrom(s, i) ==
    IF i > Len(s) THEN ""
    ELSE IF /\ WordBoundary(s, i)
            /\ Slice(s, i, i + 4) = "miles"
            /\ WordBoundary(s, i + 5)
         THEN "mile" \o ReplaceMilesFrom(s, i + 5)
         ELSE Ch(s, i) \o ReplaceMilesFrom(s, i + 1)

ReplaceMiles(s) == ReplaceMilesFrom(s, 1)

\* /^mile\s+(h|sh|sc|w)$/
IsBareMileWithModifier(s) ==
    AtEnd(s, AnyLit(s, Spaces1(s, Lit(s, {1}, "mile")), ModifierTokens)) # {}

UnitTokens == {"m", "km", "mile"}

\* the matches of /(\d+(?:\.\d+)?)\s+(m|km|mile)\b/ that start at i, each as
\* <<end of $1, start of $2, end of the match>>
UnitGapAt(s, i) ==
    UNION {UNION {{<<n, w, e>> : e \in AtBoundary(s, AnyLit(s, {w}, UnitTokens))} :
                  w \in Spaces1(s, {n})} :
           n \in Number(s, {i})}

\* s.replace(/(\d+(?:\.\d+)?)\s+(m|km|mile)\b/g, '$1$2')
RECURSIVE JoinUnitFrom(_, _)
JoinUnitFrom(s, i) ==
    IF i > Len(s) THEN ""
    ELSE IF UnitGapAt(s, i) # {}
         THEN LET m == CHOOSE t \in UnitGapAt(s, i) : TRUE
              IN  Slice(s, i, m[1] - 1) \o Slice(s, m[2], m[3] - 1)
                     \o JoinUnitFrom(s, m[3])
         ELSE Ch(s, i) \o JoinUnitFrom(s, i + 1)

JoinUnit(s) == JoinUnitFrom(s, 1)

\* the matches of /(\d+(?:m|km|mile))(h|sh|sc|w)\b/ that start at i, each as
\* <<end of $1, end of the match>>
AttachedModifierAt(s, i) ==
    UNION {{<<u, e>> : e \in AtBoundary(s, AnyLit(s, {u}, ModifierTokens))} :
           u \in AnyLit(s, Digits1(s, {i}), UnitTokens)}

\* s.replace(/(\d+(?:m|km|mile))(h|sh|sc|w)\b/g, '$1 $2')
RECURSIVE SeparateModifierFrom(_, _)
SeparateModifierFrom(s, i) ==
    IF i > Len(s) THEN ""
    ELSE IF AttachedModifierAt(s, i) # {}
         THEN LET m == CHOOSE t \in AttachedModifierAt(s, i) : TRUE
              IN  Slice(s, i, m[1] - 1) \o " " \o Slice(s, m[1], m[2] - 1)
                     \o SeparateModifierFrom(s, m[2])
         ELSE Ch(s, i) \o SeparateModifierFrom(s, i + 1)

SeparateModifier(s) == SeparateModifierFrom(s, 1)

\* the matches of /(4x\d+m)(?!ix\b)(h|sh|sc|w)\b/ that start at i
RelayModifierAt(s, i) ==
    UNION {{<<u, e>> : e \in AtBoundary(s, AnyLit(s, {u}, ModifierTokens))} :
           u \in {p \in Lit(s, Digits1(s, Lit(s, {i}, "4x")), "m") :
                     AtBoundary(s, Lit(s, {p}, "ix")) = {}}}

\* s.replace(/(4x\d+m)(?!ix\b)(h|sh|sc|w)\b/g, '$1 $2')
RECURSIVE SeparateRelayModifierFrom(_, _)
SeparateRelayModifierFrom(s, i) ==
    IF i > Len(s) THEN ""
    ELSE IF RelayModifierAt(s, i) # {}
         THEN LET m == CHOOSE t \in RelayModifierAt(s, i) : TRUE
              IN  Slice(s, i, m[1] - 1) \o " " \o Slice(s, m[1], m[2] - 1)
                     \o SeparateRelayModifierFrom(s, m[2])
         ELSE Ch(s, i) \o SeparateRelayModifierFrom(s, i + 1)

SeparateRelayModifier(s) == SeparateRelayModifierFrom(s, 1)

\* /^4x\d+m(ix)?(\s+(h|sh|sc|w))?$/
IsRelayName(s) ==
    LET m == Lit(s, Digits1(s, Lit(s, {1}, "4x")), "m")
    IN  AtEnd(s, OptModifier(s, m \cup Lit(s, m, "ix"))) # {}

\* /^\d+(?:\.\d+)?m?(\s+(h|sh|sc|w))?$|^\d+(?:\.\d+)?km(\s+(h|sh|sc|w))?$
\*  |^\d+(?:\.\d+)?mile(\s+(h|sh|sc|w))?$|marathon|walk/
IsTimedName(s) ==
    LET n == Number(s, {1})
    IN  \/ AtEnd(s, OptModifier(s, n \cup Lit(s, n, "m"))) # {}
        \/ AtEnd(s, OptModifier(s, Lit(s, n, "km"))) # {}
        \/ AtEnd(s, OptModifier(s, Lit(s, n, "mile"))) # {}
        \/ Includes(s, "marathon")
        \/ Includes(s, "walk")

\* /^(hm|hmw|marw)$/
IsSpecialName(s) == s \in {"hm", "hmw", "marw"}

\* /^(hj|pv|lj|tj|sp|dt|ht|jt)$/
IsFieldName(s) == s \in {"hj", "pv", "lj", "tj", "sp", "dt", "ht", "jt"}

\* /^(hept\.?\s*sh|hept\.?|pent\.?\s*sh|pent\.?|dec\.?|decathlon|heptathlon|pentathlon)$/
IsCombinedName(s) ==
    LET stem(w) == LET a == Lit(s, {1}, w) IN a \cup Lit(s, a, ".")
        short(w) == Lit(s, stem(w) \cup Spaces1(s, stem(w)), "sh")
    IN  \/ AtEnd(s, short("hept") \cup stem("hept")) # {}
        \/ AtEnd(s, short("pent") \cup stem("pent")) # {}
        \/ AtEnd(s, stem("dec")) # {}
        \/ s \in {"decathlon", "heptathlon", "pentathlon"}

\* the lowercase part of normalizeEventName, up to the validation tests
Canonical(collapsed) ==
    Once(LAMBDA miles :
            SeparateRelayModifier(SeparateModifier(JoinUnit(
                IF miles = "mile" THEN "1mile"
                ELSE IF IsBareMileWithModifier(miles) THEN "1" \o miles
                ELSE miles))),
         ReplaceMiles(ToLowerCase(collapsed)))

normalizeEventName(eventStr) ==
    IF eventStr = "" THEN Null
    ELSE Once(LAMBDA collapsed :
                IF IsCommaWalk(collapsed) THEN Some(FixWalkMarker(collapsed))
                ELSE Once(LAMBDA normalized :
                            IF IsRelayName(normalized) THEN Some(normalized)
                            ELSE IF IsTimedName(normalized) THEN Some(normalized)
                            ELSE IF IsSpecialName(normalized) THEN Some(normalized)
                            ELSE IF IsFieldName(normalized) THEN Some(normalized)
                            ELSE IF IsCombinedName(normalized)
                            THEN Some(RemovePeriods(normalized))
                            ELSE Null,
                          Canonical(collapsed)),
              CollapseSpaces(Trim(eventStr)))

(***************************************************************************)
(* Row reconstruction: the callback of allTokens.flatMap in                *)
(* parseCrossReferencedRow, and parsePerformanceValue                      *)
(***************************************************************************)

Separator == {".", ":"}

\* /^\d+[\.:]\d+$/
IsSimpleValue(t) == AtEnd(t, Digits1(t, AnyLit(t, Digits1(t, {1}), Separator))) # {}

\* the same with a greedy fraction, /\d+[\.:]\d+/: the longest match that starts at i
PerformanceAtGreedy(t, i) ==
    LET ends == Digits1(t, AnyLit(t, Digits1(t, {i}), Separator))
    IN  {e \in ends : \A f \in ends : f <= e}

\* the end of the match of /\d+[\.:]\d{2}/ that starts at i, as a set (empty: none)
PerformanceAt(t, i) == DigitsN(t, AnyLit(t, Digits1(t, {i}), Separator), 2)

\* token.match(/\d+[\.:]\d{2}/g): the matched substrings, left to right
RECURSIVE MatchPerformances(_, _)
MatchPerformances(t, i) ==
    IF i > Len(t) THEN <<>>
    ELSE IF PerformanceAt(t, i) # {}
         THEN LET e == CHOOSE q \in PerformanceAt(t, i) : TRUE
              IN  <<Slice(t, i, e - 1)>> \o MatchPerformances(t, e)
         ELSE MatchPerformances(t, i + 1)

\* for (const char of str) if (char === '-') parts.push('-')
RECURSIVE Dashes(_)
Dashes(str) ==
    IF str = "" THEN <<>>
    ELSE (IF Ch(str, 1) = "-" THEN <<"-">> ELSE <<>>) \o Dashes(From(str, 2))

\* the loop over the matches, from lastIndex on
RECURSIVE RebuildParts(_, _, _)
RebuildParts(t, matches, lastIndex) ==
    IF matches = <<>> THEN Dashes(From(t, lastIndex))
    ELSE LET match == Head(matches)
             matchIndex == IndexOf(t, match, lastIndex)
         IN  Dashes(Slice(t, lastIndex, matchIndex - 1)) \o <<match>>
                \o RebuildParts(t, Tail(matches), matchIndex + Len(match))

\* the flatMap callback
ReconstructToken(t) ==
    IF t = "--" THEN <<"-", "-">>
    ELSE IF t = "-" \/ IsSimpleValue(t) THEN <<t>>
    ELSE LET matches == MatchPerformances(t, 1)
             rebuilt == RebuildParts(t, matches, 1)
         IN  IF matches # <<>> /\ rebuilt # <<>> THEN rebuilt ELSE <<t>>

\* /^.+$/
IsAnyText(v) == v # ""

\* /^[\d:.]+$/
IsPerformanceText(v) ==
    v # "" /\ \A i \in 1..Len(v) : IsDigit(Ch(v, i)) \/ Ch(v, i) \in Separator

parsePerformanceValue(value) ==
    IF value = "" \/ value = "-" THEN Null
    ELSE IF IsPerformanceText(value) THEN Some(value)
    ELSE Null

\* concatenation of a sequence of strings
RECURSIVE Concat(_)
Concat(ss) == IF ss = <<>> THEN "" ELSE Head(ss) \o Concat(Tail(ss))

\* the sequences of at most n elements of S
RECURSIVE SeqsUpTo(_, _)
SeqsUpTo(S, n) ==
    IF n = 0 THEN {<<>>}
    ELSE LET shorter == SeqsUpTo(S, n - 1)
         IN  shorter \cup {Append(q, x) : q \in shorter, x \in S}

(***************************************************************************)
(* events-config.js: the event catalog and buildEventMap                   *)
(***************************************************************************)

\* eventsConfig.trackEvents without race_walk: <<category, base name, variants>>,
\* the variants being the modifiers the allow* flags of the entry admit
TrackEvents ==
    {<<"sprints", "50m", {"h"}>>, <<"sprints", "55m", {"h"}>>,
     <<"sprints", "60m", {"h"}>>, <<"sprints", "100m", {"h"}>>,
     <<"sprints", "110m", {"h"}>>, <<"sprints", "150m", {}>>,
     <<"sprints", "200m", {"h", "sh"}>>, <<"sprints", "300m", {"h", "sh"}>>,
     <<"sprints", "400m", {"h", "sh"}>>, <<"sprints", "500m", {"sh"}>>,
     <<"middle_distance", "600m", {"h", "sh"}>>,
     <<"middle_distance", "800m", {"h", "sh"}>>,
     <<"middle_distance", "1000m", {"h", "sh"}>>,
     <<"middle_distance", "1500m", {"sh"}>>,
     <<"middle_distance", "1mile", {"sh"}>>,
     <<"middle_distance", "2000m", {"sh", "sc"}>>,
     <<"long_distance", "3000m", {"sh", "sc"}>>,
     <<"long_distance", "5000m", {"sh"}>>, <<"long_distance", "10000m", {}>>,
     <<"long_distance", "2km", {"sh"}>>, <<"long_distance", "2mile", {"sh"}>>,
     <<"long_distance", "5km", {"sh"}>>, <<"long_distance", "10km", {"sh"}>>,
     <<"long_distance", "10mile", {"sh"}>>, <<"long_distance", "15km", {}>>,
     <<"long_distance", "20km", {}>>, <<"long_distance", "hm", {}>>,
     <<"long_distance", "25km", {}>>, <<"long_distance", "30km", {}>>,
     <<"long_distance", "marathon", {}>>, <<"long_distance", "100km", {}>>}

\* eventsConfig.trackEvents.race_walk: <<base name, whether the entry has a name>>
RaceWalkEvents ==
    {<<"3000m", FALSE>>, <<"5000m", FALSE>>, <<"10,000mW", TRUE>>,
     <<"15,000mW", TRUE>>, <<"20,000mW", TRUE>>, <<"30,000mW", TRUE>>,
     <<"35,000mW", TRUE>>, <<"50,000mW", TRUE>>, <<"3km", FALSE>>,
     <<"5km", FALSE>>, <<"10km", FALSE>>, <<"15km", FALSE>>, <<"20km", FALSE>>,
     <<"hmw", TRUE>>, <<"30km", FALSE>>, <<"35km", FALSE>>, <<"marw", TRUE>>,
     <<"50km", FALSE>>}

\* eventsConfig.fieldEvents: <<category, abbr>>
FieldEvents ==
    {<<"jumps", "hj">>, <<"jumps", "pv">>, <<"jumps", "lj">>, <<"jumps", "tj">>,
     <<"throws", "sp">>, <<"throws", "dt">>, <<"throws", "ht">>,
     <<"throws", "jt">>, <<"throws", "wt">>}

\* eventsConfig.combinedEvents: <<abbr, allowShortTrack>>
CombinedEvents == {<<"dec", FALSE>>, <<"hept", TRUE>>, <<"pent", TRUE>>}

\* eventsConfig.relayEvents: <<name, allowShortTrack, allowMixed>>
RelayEvents ==
    {<<"4x100m", FALSE, FALSE>>, <<"4x200m", TRUE, FALSE>>, <<"4x400m", TRUE, TRUE>>}

\* baseName.replace(/m$/, 'mix')
MixName(baseName) == Slice(baseName, 1, Len(baseName) - 1) \o "mix"

\* buildEventMap: the <<key, category>> pairs of the map (no key is set twice with
\* different categories)
buildEventMap ==
    UNION {{<<t[2], t[1]>>} \cup {<<t[2] \o " " \o v, t[1]>> : v \in t[3]} :
           t \in TrackEvents}
    \cup {<<f[2], f[1]>> : f \in FieldEvents}
    \cup UNION {{<<c[1], "combined">>}
                   \cup (IF c[2] THEN {<<c[1] \o " sh", "combined">>} ELSE {}) :
                c \in CombinedEvents}
    \cup UNION {{<<r[1], "relays">>}
                   \cup (IF r[2] THEN {<<r[1] \o " sh", "relays">>} ELSE {})
                   \cup (IF r[3] THEN {<<MixName(r[1]), "relays">>} ELSE {})
                   \cup (IF r[3] /\ r[2]
                         THEN {<<MixName(r[1]) \o " sh", "relays">>} ELSE {}) :
                r \in RelayEvents}
    \cup UNION {(IF w[2] THEN {<<w[1], "race_walk">>} ELSE {})
                   \cup {<<w[1] \o " w", "race_walk">>,
                         <<w[1] \o " walk", "race_walk">>} :
                w \in RaceWalkEvents}

isKnownEvent(eventName) == \E e \in buildEventMap : e[1] = eventName

\* the section category for every event: a lookup that finds no event
NoCategoryForEvent(eventName) == Null

getCategoryForEvent(eventName) ==
    IF isKnownEvent(eventName)
    THEN Some((CHOOSE e \in buildEventMap : e[1] = eventName)[2])
    ELSE Null

\* eventsConfig.categoryKeywords, in the order of the object's keys
categoryKeywords ==
    <<<<"sprints", {"sprint"}>>,
      <<"hurdles", {"hurdle", "haie"}>>,
      <<"middle_distance", {"demi-fond", "middle"}>>,
      <<"long_distance", {"long distance", "fond"}>>,
      <<"jumps", {"jump", "saut"}>>,
      <<"throws", {"throw", "lancer"}>>,
      <<"combined", {"combined", "combinée"}>>,
      <<"relays", {"relay", "relai"}>>,
      <<"race_walk", {"walk", "marche"}>>>>

(***************************************************************************)
(* detectSection                                                           *)
(***************************************************************************)

\* the three tests in another order, men first and without its guard
DetectGenderMenFirst(lineLower) ==
    IF Includes(lineLower, "men") \/ Includes(lineLower, "hommes")
    THEN Some("men")
    ELSE IF Includes(lineLower, "women") \/ Includes(lineLower, "femmes")
         THEN Some("women")
    ELSE IF Includes(lineLower, "mixed") \/ Includes(lineLower, "mixte")
         THEN Some("mixed")
    ELSE Null

DetectGender(lineLower) ==
    IF Includes(lineLower, "women") \/ Includes(lineLower, "femmes")
    THEN Some("women")
    ELSE IF /\ Includes(lineLower, "men") \/ Includes(lineLower, "hommes")
            /\ ~Includes(lineLower, "women")
         THEN Some("men")
    ELSE IF Includes(lineLower, "mixed") \/ Includes(lineLower, "mixte")
         THEN Some("mixed")
    ELSE Null

DetectCategory(lineLower) ==
    LET hits == {i \in 1..Len(categoryKeywords) :
                    \E keyword \in categoryKeywords[i][2] : Includes(lineLower, keyword)}
    IN  IF hits = {} THEN Null
        ELSE Some(categoryKeywords[CHOOSE i \in hits : \A j \in hits : i <= j][1])

\* the result object (a property that is not set is Null); Null when it has no property
detectSection(line) ==
    LET lineLower == ToLowerCase(line)
        result == [gender |-> DetectGender(lineLower),
                   category |-> DetectCategory(lineLower)]
    IN  IF result.gender = Null /\ result.category = Null THEN Null ELSE Some(result)

\* currentSection = sectionInfo
ReplaceSection(section, sectionInfo) == sectionInfo

\* { ...currentSection, ...sectionInfo }
MergeSection(section, info) ==
    [gender |-> IF info.gender # Null THEN info.gender ELSE section.gender,
     category |-> IF info.category # Null THEN info.category ELSE section.category]

(***************************************************************************)
(* detectTableHeaders                                                      *)
(***************************************************************************)

\* /^points$/.test(column)
IsPointsColumnExact(column) == column = "points"

\* /points?/i.test(column)
IsPointsColumn(column) == Includes(ToLowerCase(column), "point")

\* /^\d+(?:\.\d+)?$/
IsMagnitude(tok) == AtEnd(tok, Number(tok, {1})) # {}

\* /^(m|km|miles?)$/i
IsUnit(tok) == ToLowerCase(tok) \in {"m", "km", "mile", "miles"}

\* /^(h|sh|sc|w)$/i
IsModifier(tok) == ToLowerCase(tok) \in ModifierTokens

\* a loop that gives the header up at a descriptor normalizeEventName rejects
ParseEventTokensOrNone(eventTokens, i) ==
    IF \E k \in i..Len(eventTokens) : normalizeEventName(eventTokens[k]) = Null
    THEN <<>>
    ELSE [k \in 1..(Len(eventTokens) - i + 1) |->
            normalizeEventName(eventTokens[k + i - 1])[1]]

\* the loop over eventTokens from index i on (1-based)
RECURSIVE ParseEventTokens(_, _)
ParseEventTokens(eventTokens, i) ==
    IF i > Len(eventTokens) THEN <<>>
    ELSE LET joinUnit == /\ i + 1 <= Len(eventTokens)
                         /\ IsMagnitude(eventTokens[i])
                         /\ IsUnit(eventTokens[i + 1])
             name1 == IF joinUnit THEN eventTokens[i] \o " " \o eventTokens[i + 1]
                      ELSE eventTokens[i]
             i1 == IF joinUnit THEN i + 1 ELSE i
             joinMod == i1 + 1 <= Len(eventTokens) /\ IsModifier(eventTokens[i1 + 1])
             name2 == IF joinMod THEN name1 \o " " \o eventTokens[i1 + 1] ELSE name1
             i2 == IF joinMod THEN i1 + 1 ELSE i1
             normalized == normalizeEventName(name2)
         IN  normalized \o ParseEventTokens(eventTokens, i2 + 1)

\* Null, or Some of [events, pointsPosition]
detectTableHeaders(line) ==
    IF ~Includes(ToLowerCase(line), "point") THEN Null
    ELSE Once(LAMBDA columns :
        IF Len(columns) < 2 THEN Null
        ELSE Once(LAMBDA pointsPosition :
            IF pointsPosition = Null THEN Null
            ELSE Once(LAMBDA events :
                        IF events # <<>>
                        THEN Some([events |-> events,
                                   pointsPosition |-> pointsPosition[1]])
                        ELSE Null,
                      ParseEventTokens(IF pointsPosition = Some("left")
                                       THEN SubSeq(columns, 2, Len(columns))
                                       ELSE SubSeq(columns, 1, Len(columns) - 1),
                                       1)),
            IF IsPointsColumn(columns[1]) THEN Some("left")
            ELSE IF IsPointsColumn(columns[Len(columns)]) THEN Some("right")
            ELSE Null),
        SplitWhitespace(line))

(***************************************************************************)
(* parseCrossReferencedRow                                                 *)
(***************************************************************************)

\* the value of a string of digits
RECURSIVE DigitsValue(_)
DigitsValue(d) ==
    IF d = "" THEN 0
    ELSE 10 * DigitsValue(Slice(d, 1, Len(d) - 1))
            + (CHOOSE v \in 0..9 : ToString(v) = Ch(d, Len(d)))

\* parseInt(str) for a string without leading whitespace: an optional sign and the
\* longest prefix of digits; Null is NaN
parseInt(str) ==
    LET signed == Ch(str, 1) \in {"-", "+"}
        body == IF signed THEN From(str, 2) ELSE str
        ends == Digits1(body, {1})
        last == CHOOSE e \in ends : \A f \in ends : f <= e
        magnitude == DigitsValue(Slice(body, 1, last - 1))
    IN  IF ends = {} THEN Null
        ELSE Some(IF Ch(str, 1) = "-" THEN 0 - magnitude ELSE magnitude)

\* allTokens.flatMap(callback)
RECURSIVE FlatMapReconstruct(_)
FlatMapReconstruct(tokens) ==
    IF tokens = <<>> THEN <<>>
    ELSE ReconstructToken(Head(tokens)) \o FlatMapReconstruct(Tail(tokens))

\* the lowest and highest points a row may carry
MinPoints == 0

MaxPoints == 1500

\* without the test of the range
AnyPoints(points) == TRUE

\* not (points < 0 || points > 1500)
InPointsRange(points) == points >= MinPoints /\ points <= MaxPoints

\* Null, or Some of [points, performances, events]; a performance is Null or Some text.
\* With a pointsPosition that is neither left nor right the source returns a row whose
\* points is null, which its caller drops like no row: Null here.
parseCrossReferencedRow(line, headers, pointsPosition) ==
    Once(LAMBDA allTokens :
        IF Len(allTokens) = 0 THEN Null
        ELSE Once(LAMBDA points :
            IF points = Null \/ ~InPointsRange(points[1]) THEN Null
            ELSE LET n == Len(allTokens)
                     performanceValues ==
                        IF pointsPosition = "left" THEN SubSeq(allTokens, 2, n)
                        ELSE SubSeq(allTokens, 1, n - 1)
                 IN  Some([points |-> points[1],
                           performances |->
                                [i \in 1..Len(headers) |->
                                    IF i <= Len(performanceValues)
                                    THEN parsePerformanceValue(performanceValues[i])
                                    ELSE Null],
                           events |-> headers]),
            IF pointsPosition = "left" THEN parseInt(allTokens[1])
            ELSE IF pointsPosition = "right" THEN parseInt(allTokens[Len(allTokens)])
            ELSE Null),
        FlatMapReconstruct(SplitWhitespace(line)))

\* /^(©|world\s*athletics|page\s*\d+)$/i.test(line) || (line.length === 1 && /^\d+$/.test(line))
isTableEnd(line) ==
    LET l == ToLowerCase(line)
        world == Lit(l, {1}, "world")
        page == Lit(l, {1}, "page")
    IN  \/ l = "©"
        \/ AtEnd(l, Lit(l, world \cup Spaces1(l, world), "athletics")) # {}
        \/ AtEnd(l, Digits1(l, page \cup Spaces1(l, page))) # {}
        \/ Len(line) = 1 /\ IsDigit(line)

(***************************************************************************)
(* Values: a JavaScript or JSON scalar is a tagged record                  *)
(***************************************************************************)

JNum(n) == [t |-> "num", n |-> n]

JStr(str) == [t |-> "str", s |-> str]

JNull == [t |-> "null"]

JUndefined == [t |-> "undefined"]

\* an entry of an event's list as the extractor makes it: { performance, points }
ObjectEntry(performance, points) ==
    [performance |-> JStr(performance), points |-> JNum(points), items |-> <<>>]

\* an entry that is an array [a, b]: performance and points are properties it
\* does not have
ArrayEntry(items) ==
    [performance |-> JUndefined, points |-> JUndefined, items |-> items]

\* a < b on two property values: false when either is undefined (NaN)
JsLess(a, b) == a.t = "num" /\ b.t = "num" /\ a.n < b.n

\* an object without properties
EmptyObject == [k \in {} |-> {}]

\* obj[k] = v
Put(obj, k, v) == (k :> v) @@ obj

\* obj[k], or the default when obj has no property k
GetOr(obj, k, default) == IF k \in DOMAIN obj THEN obj[k] ELSE default

\* the (gender, category, event) leaves of a table
Leaves(tbl) ==
    UNION {UNION {{<<g, c, e>> : e \in DOMAIN tbl[g][c]} : c \in DOMAIN tbl[g]} :
            g \in DOMAIN tbl}

\* the entry list of a leaf
ListAt(tbl, leaf) == tbl[leaf[1]][leaf[2]][leaf[3]]

(***************************************************************************)
(* storeCrossReferencedData                                                *)
(***************************************************************************)

\* without the override for mixed relays
GenderOfSection(eventName, sectionGender) == sectionGender

\* eventGender: /mix/.test(eventName) files the event under 'mixed'
GenderForEvent(eventName, sectionGender) ==
    IF Includes(eventName, "mix") THEN "mixed" ELSE sectionGender

\* the body of the loop for index i, then the rest of the loop
RECURSIVE StoreFrom(_, _, _, _)
StoreFrom(tbl, section, dataRow, i) ==
    IF i > Len(dataRow.performances) \/ i > Len(dataRow.events) THEN tbl
    ELSE
    LET performance == dataRow.performances[i]
        eventName == dataRow.events[i]
        eventGender == GenderForEvent(eventName, section.gender[1])
        withGender == IF eventGender \in DOMAIN tbl THEN tbl
                      ELSE Put(tbl, eventGender, EmptyObject)
        catalog == getCategoryForEvent(eventName)
        eventCategory == IF catalog # Null THEN catalog ELSE section.category
        categories == withGender[eventGender]
        events == GetOr(categories, eventCategory[1], EmptyObject)
        entries == GetOr(events, eventName, <<>>)
        stored ==
            Put(withGender, eventGender,
                Put(categories, eventCategory[1],
                    Put(events, eventName,
                        Append(entries, ObjectEntry(performance[1], dataRow.points)))))
    IN  IF performance = Null \/ eventName = ""
        THEN StoreFrom(tbl, section, dataRow, i + 1)
        ELSE IF eventCategory = Null
        THEN StoreFrom(withGender, section, dataRow, i + 1)
        ELSE StoreFrom(stored, section, dataRow, i + 1)

\* without the return at the top: a section without gender files under "undefined"
StoreWithoutGender(tbl, section, dataRow) ==
    StoreFrom(tbl, [section EXCEPT !.gender = IF @ = Null THEN Some("undefined") ELSE @],
              dataRow, 1)

storeCrossReferencedData(tbl, section, dataRow) ==
    IF section.gender = Null \/ dataRow.points = 0 THEN tbl
    ELSE StoreFrom(tbl, section, dataRow, 1)

(***************************************************************************)
(* cleanAndSortData                                                        *)
(***************************************************************************)

\* the key of uniqueMap compared by whole entry instead of by performance
SameEntry(a, b) == a = b

\* uniqueMap.has(key), for the entry a the map holds and the entry b at hand: the key
\* is entry.performance
SameKey(a, b) == a.performance = b.performance

\* without the comparison of points: the last entry of a performance wins
SupersedesAlways(entry, held) == TRUE

\* uniqueMap.get(key).points < entry.points
Supersedes(entry, held) == JsLess(held.points, entry.points)

\* the values of uniqueMap after the loop over entries from index i on; map holds the
\* values in the order their keys were first set
RECURSIVE UniqueValues(_, _, _)
UniqueValues(entries, i, map) ==
    IF i > Len(entries) THEN map
    ELSE LET entry == entries[i]
             at == {k \in 1..Len(map) : SameKey(map[k], entry)}
             held == CHOOSE k \in at : TRUE
         IN  IF at = {} THEN UniqueValues(entries, i + 1, Append(map, entry))
             ELSE IF Supersedes(entry, map[held])
                  THEN UniqueValues(entries, i + 1, [map EXCEPT ![held] = entry])
                  ELSE UniqueValues(entries, i + 1, map)

\* the place of x in a list sorted by points descending: after every element that
\* does not have fewer points (the sort is stable)
RECURSIVE InsertByPoints(_, _)
InsertByPoints(sorted, x) ==
    IF sorted = <<>> THEN <<x>>
    ELSE IF JsLess(Head(sorted).points, x.points) THEN <<x>> \o sorted
         ELSE <<Head(sorted)>> \o InsertByPoints(Tail(sorted), x)

\* list.sort((a, b) => b.points - a.points), every points being a number
RECURSIVE SortByPoints(_)
SortByPoints(list) ==
    IF list = <<>> THEN <<>>
    ELSE InsertByPoints(SortByPoints(SubSeq(list, 1, Len(list) - 1)), list[Len(list)])

\* the results list.sort((a, b) => b.points - a.points) may give.  When a points is
\* undefined the comparator returns NaN against every other element: it is not a
\* consistent comparator, and the order of the result is implementation-defined.
SortOutcomes(list) ==
    IF \A i \in 1..Len(list) : list[i].points.t = "num"
    THEN {SortByPoints(list)}
    ELSE {[i \in 1..Len(list) |-> list[pi[i]]] : pi \in Permutations(1..Len(list))}

\* the functions on DOMAIN F that pick a member of F[k] for every k
RECURSIVE Choices(_)
Choices(F) ==
    Once(LAMBDA f :
            IF DOMAIN f = {} THEN {EmptyObject}
            ELSE LET first == CHOOSE d \in DOMAIN f : TRUE
                 IN  {(first :> v) @@ r :
                        v \in f[first],
                        r \in Choices([d \in DOMAIN f \ {first} |-> f[d]])},
         F)

\* the tables cleanAndSortData may leave
cleanAndSortData(tbl) ==
    Choices([gender \in DOMAIN tbl |->
        Choices([category \in DOMAIN tbl[gender] |->
            Choices([eventName \in DOMAIN tbl[gender][category] |->
                SortOutcomes(
                    UniqueValues(tbl[gender][category][eventName], 1, <<>>))])])])

(***************************************************************************)
(* loadAndMerge and exportToJSON: JSON text                                *)
(***************************************************************************)

\* the keys of an object as a sequence.  Object.entries gives them in insertion
\* order; the model keeps no order among keys and enumerates them in a fixed one
RECURSIVE KeySeq(_)
KeySeq(K) ==
    IF K = {} THEN <<>>
    ELSE LET first == CHOOSE k \in K : TRUE IN <<first>> \o KeySeq(K \ {first})

RECURSIVE Spaces(_)
Spaces(n) == IF n <= 0 THEN "" ELSE " " \o Spaces(n - 1)

\* the line break and indentation JSON.stringify(value, null, 2) writes at depth
\* `indent`; nothing without the space argument
Break(pretty, indent) == IF pretty THEN "\n" \o Spaces(indent) ELSE ""

\* a scalar; undefined in an array is written null
StringifyScalar(v) ==
    IF v.t = "num" THEN ToString(v.n)
    ELSE IF v.t = "str" THEN "\"" \o v.s \o "\""
    ELSE "null"

\* the items of an array or the members of an object from the i-th on, joined
RECURSIVE JoinItems(_, _, _, _)
JoinItems(items, i, pretty, indent) ==
    IF i > Len(items) THEN ""
    ELSE Break(pretty, indent) \o items[i]
            \o (IF i < Len(items) THEN "," ELSE "")
            \o JoinItems(items, i + 1, pretty, indent)

\* '[' items ']' or '{' members '}'
Bracket(open, close, items, pretty, indent) ==
    Once(LAMBDA texts :
            IF texts = <<>> THEN open \o close
            ELSE open \o JoinItems(texts, 1, pretty, indent + 2)
                    \o Break(pretty, indent) \o close,
         items)

StringifyPair(pair, pretty, indent) ==
    Bracket("[", "]", [i \in 1..Len(pair) |-> StringifyScalar(pair[i])], pretty, indent)

StringifyList(list, pretty, indent) ==
    Bracket("[", "]",
            [i \in 1..Len(list) |-> StringifyPair(list[i], pretty, indent + 2)],
            pretty, indent)

Member(k, text, pretty) == "\"" \o k \o "\":" \o (IF pretty THEN " " ELSE "") \o text

\* an object `levels` levels above the event lists (1: event name -> list)
RECURSIVE StringifyObject(_, _, _, _)
StringifyObject(obj, levels, pretty, indent) ==
    Once(LAMBDA keys :
            Bracket("{", "}",
                    [i \in 1..Len(keys) |->
                        Member(keys[i],
                               IF levels = 1
                               THEN StringifyList(obj[keys[i]], pretty, indent + 2)
                               ELSE StringifyObject(obj[keys[i]], levels - 1, pretty,
                                                    indent + 2),
                               pretty)],
                    pretty, indent),
         KeySeq(DOMAIN obj))

\* JSON.stringify(compactData) and JSON.stringify(compactData, null, 2)
Stringify(compactData, pretty) == StringifyObject(compactData, 3, pretty, 0)

\* \s of a regular expression, and the whitespace of JSON, in a text with line breaks
IsBlank(c) == c \in {" ", "\t", "\n"}

\* the first position from p on whose character is not blank
RECURSIVE SkipBlanks(_, _)
SkipBlanks(s, p) == IF IsBlank(Ch(s, p)) THEN SkipBlanks(s, p + 1) ELSE p

\* the first position from p on whose character is not a digit
RECURSIVE SkipDigits(_, _)
SkipDigits(s, p) == IF IsDigit(Ch(s, p)) THEN SkipDigits(s, p + 1) ELSE p

\* the first position from p on that holds a double quote, or is past the end
RECURSIVE SkipToQuote(_, _)
SkipToQuote(s, p) ==
    IF p > Len(s) \/ Ch(s, p) = "\"" THEN p ELSE SkipToQuote(s, p + 1)

\* the match of /\[\s+(\d+),\s+"([^"]+)"\s+\]/ that starts at i, as
\* <<start of $1, end of $1, start of $2, end of $2, end of the match>>, ends
\* exclusive; <<>> when there is none
PairMatchAt(s, i) ==
    LET d1 == SkipBlanks(s, i + 1)
        d2 == SkipDigits(s, d1)
        q1 == SkipBlanks(s, d2 + 1)
        q2 == SkipToQuote(s, q1 + 1)
        b == SkipBlanks(s, q2 + 1)
    IN  IF /\ Ch(s, i) = "["
           /\ d1 > i + 1 /\ d2 > d1
           /\ Ch(s, d2) = ","
           /\ q1 > d2 + 1 /\ Ch(s, q1) = "\""
           /\ q2 > q1 + 1 /\ Ch(s, q2) = "\""
           /\ b > q2 + 1 /\ Ch(s, b) = "]"
        THEN <<d1, d2, q1 + 1, q2, b + 1>>
        ELSE <<>>

\* prettyJson.replace(/\[\s+(\d+),\s+"([^"]+)"\s+\]/g, '[$1, "$2"]'): the
\* leftmost match from i on is replaced, and the search goes on after it
RECURSIVE CompactPairsFrom(_, _)
CompactPairsFrom(s, i) ==
    Once(LAMBDA starts :
            IF starts = {} THEN From(s, i)
            ELSE Once(LAMBDA m :
                        Slice(s, i, m[1] - 1)
                            \o "[" \o Slice(s, m[2][1], m[2][2] - 1)
                            \o ", \"" \o Slice(s, m[2][3], m[2][4] - 1) \o "\"]"
                            \o CompactPairsFrom(s, m[2][5]),
                      CHOOSE m \in starts : \A other \in starts : m[1] <= other[1]),
         {<<j, PairMatchAt(s, j)>> : j \in {k \in i..Len(s) : Ch(s, k) = "["}}
            \ {<<j, <<>>>> : j \in i..Len(s)})

CompactPairs(s) == CompactPairsFrom(s, 1)

\* JSON.parse, for texts of objects, arrays, strings without escapes, unsigned
\* integers and null.  A result is [ok, v, p]: whether a value was read, the value
\* (an object as a function, an array as a sequence, a scalar as a tagged record),
\* and the position after it.
ParseFailure(p) == [ok |-> FALSE, v |-> JNull, p |-> p]

RECURSIVE ParseValue(_, _), ParseMembers(_, _, _), ParseElements(_, _, _)
ParseValue(s, p0) ==
    LET p == SkipBlanks(s, p0)
        c == Ch(s, p)
        q == SkipBlanks(s, p + 1)
    IN  IF c = "{"
        THEN IF Ch(s, q) = "}" THEN [ok |-> TRUE, v |-> EmptyObject, p |-> q + 1]
             ELSE ParseMembers(s, q, EmptyObject)
        ELSE IF c = "["
        THEN IF Ch(s, q) = "]" THEN [ok |-> TRUE, v |-> <<>>, p |-> q + 1]
             ELSE ParseElements(s, q, <<>>)
        ELSE IF c = "\""
        THEN LET e == SkipToQuote(s, p + 1)
             IN  IF e > Len(s) THEN ParseFailure(p)
                 ELSE [ok |-> TRUE, v |-> JStr(Slice(s, p + 1, e - 1)), p |-> e + 1]
        ELSE IF IsDigit(c)
        THEN LET e == SkipDigits(s, p)
             IN  [ok |-> TRUE, v |-> JNum(DigitsValue(Slice(s, p, e - 1))), p |-> e]
        ELSE IF Slice(s, p, p + 3) = "null"
        THEN [ok |-> TRUE, v |-> JNull, p |-> p + 4]
        ELSE ParseFailure(p)

\* the members of an object from the key at p on, acc holding those before
ParseMembers(s, p, acc) ==
    Once(LAMBDA k :
            IF ~k.ok \/ Ch(s, p) # "\"" \/ Ch(s, SkipBlanks(s, k.p)) # ":"
            THEN ParseFailure(p)
            ELSE Once(LAMBDA m :
                        IF ~m.ok THEN ParseFailure(m.p)
                        ELSE Once(LAMBDA object :
                                    LET next == SkipBlanks(s, m.p)
                                    IN  IF Ch(s, next) = ","
                                        THEN ParseMembers(s, SkipBlanks(s, next + 1),
                                                          object)
                                        ELSE IF Ch(s, next) = "}"
                                        THEN [ok |-> TRUE, v |-> object, p |-> next + 1]
                                        ELSE ParseFailure(next),
                                  Put(acc, k.v.s, m.v)),
                      ParseValue(s, SkipBlanks(s, k.p) + 1)),
         ParseValue(s, p))

\* the elements of an array from the one at p on, acc holding those before
ParseElements(s, p, acc) ==
    Once(LAMBDA m :
            IF ~m.ok THEN ParseFailure(m.p)
            ELSE Once(LAMBDA array :
                        LET next == SkipBlanks(s, m.p)
                        IN  IF Ch(s, next) = ","
                            THEN ParseElements(s, next + 1, array)
                            ELSE IF Ch(s, next) = "]"
                            THEN [ok |-> TRUE, v |-> array, p |-> next + 1]
                            ELSE ParseFailure(next),
                      Append(acc, m.v)),
         ParseValue(s, p))

\* Null when the text is not one JSON value, else Some of the value
JsonParse(text) ==
    Once(LAMBDA r :
            IF r.ok /\ SkipBlanks(text, r.p) = Len(text) + 1 THEN Some(r.v) ELSE Null,
         ParseValue(text, 1))

\* compactData: each entry as [entry.points, entry.performance]
CompactData(tbl) ==
    [gender \in DOMAIN tbl |->
        [category \in DOMAIN tbl[gender] |->
            [eventName \in DOMAIN tbl[gender][category] |->
                [i \in 1..Len(tbl[gender][category][eventName]) |->
                    <<tbl[gender][category][eventName][i].points,
                      tbl[gender][category][eventName][i].performance>>]]]]

\* list.push(...entries): the elements of the file's arrays, as they are
PushAll(list, entries) == list \o [i \in 1..Len(entries) |-> ArrayEntry(entries[i])]

\* the loops of loadAndMerge over existingData, a table as this tool exports it
MergeData(tbl, existingData) ==
    [gender \in DOMAIN tbl \cup DOMAIN existingData |->
        IF gender \notin DOMAIN existingData THEN tbl[gender]
        ELSE LET mine == GetOr(tbl, gender, EmptyObject)
                 theirs == existingData[gender]
             IN  [category \in DOMAIN mine \cup DOMAIN theirs |->
                    IF category \notin DOMAIN theirs THEN mine[category]
                    ELSE LET myEvents == GetOr(mine, category, EmptyObject)
                             theirEvents == theirs[category]
                         IN  [eventName \in DOMAIN myEvents \cup DOMAIN theirEvents |->
                                IF eventName \notin DOMAIN theirEvents
                                THEN myEvents[eventName]
                                ELSE PushAll(GetOr(myEvents, eventName, <<>>),
                                             theirEvents[eventName])]]]

\* the value can be spread into push: an array (the model cannot tell an object
\* without properties from an array without elements)
IsIterable(v) == Slice(ToString(v), 1, 2) = "<<"

\* the place of key k in the order the keys of K are gone through
Pos(K, k) == CHOOSE i \in 1..Cardinality(K) : KeySeq(K)[i] = k

\* the leaves of existingData whose value push(...entries) throws on; existingData
\* is an object of objects of objects
Unspreadable(existingData) ==
    {leaf \in Leaves(existingData) : ~IsIterable(ListAt(existingData, leaf))}

\* leaf a is gone through no later than leaf b by the three loops
NoLater(existingData, a, b) ==
    LET ga == Pos(DOMAIN existingData, a[1])
        gb == Pos(DOMAIN existingData, b[1])
        ca == Pos(DOMAIN existingData[a[1]], a[2])
        ea == Pos(DOMAIN existingData[a[1]][a[2]], a[3])
    IN  \/ ga < gb
        \/ /\ a[1] = b[1]
           /\ \/ ca < Pos(DOMAIN existingData[a[1]], b[2])
              \/ a[2] = b[2] /\ ea <= Pos(DOMAIN existingData[a[1]][a[2]], b[3])

\* what the loops have gone through when push throws at the leaf: the genders,
\* categories and events up to it, the leaf itself with the empty list made for it
UpToThrow(existingData, leaf) ==
    [gender \in {g \in DOMAIN existingData :
                    Pos(DOMAIN existingData, g) <= Pos(DOMAIN existingData, leaf[1])} |->
        IF gender # leaf[1] THEN existingData[gender]
        ELSE LET categories == existingData[gender]
             IN  [category \in {c \in DOMAIN categories :
                        Pos(DOMAIN categories, c) <= Pos(DOMAIN categories, leaf[2])} |->
                    IF category # leaf[2] THEN categories[category]
                    ELSE LET events == categories[category]
                         IN  [eventName \in {e \in DOMAIN events :
                                    Pos(DOMAIN events, e) <= Pos(DOMAIN events, leaf[3])} |->
                                IF eventName # leaf[3] THEN events[eventName]
                                ELSE <<>>]]]

\* the try block of loadAndMerge on the text of the file: whether it threw, and the
\* tables it left.  JSON.parse throws before anything is merged; push(...entries)
\* throws at the first leaf that is no array, after the leaves before it were merged.
TryMerge(tbl, text) ==
    Once(LAMBDA existingData :
            IF existingData = Null THEN [threw |-> TRUE, tables |-> tbl]
            ELSE Once(LAMBDA bad :
                        IF bad = {} THEN [threw |-> FALSE,
                                          tables |-> MergeData(tbl, existingData[1])]
                        ELSE [threw |-> TRUE,
                              tables |->
                                MergeData(tbl,
                                    UpToThrow(existingData[1],
                                        CHOOSE leaf \in bad : \A other \in bad :
                                            NoLater(existingData[1], leaf, other)))],
                      Unspreadable(existingData[1])),
         JsonParse(text))

\* file is Null (no file at the path) or Some text.  The catch clause warns and
\* leaves the tables as the try block left them.
loadAndMerge(tbl, file) ==
    IF file = Null THEN tbl ELSE TryMerge(tbl, file[1]).tables

\* console.warn('Could not load existing file')
LoadWarns(tbl, file) == file # Null /\ TryMerge(tbl, file[1]).threw

(***************************************************************************)
(* State                                                                   *)
(***************************************************************************)

VARIABLES
    pc,         \* the step the run is at
    eventStr,   \* the argument of normalizeEventName
    key,        \* its result
    rekey,      \* the result of normalizeEventName on that result
    token,      \* one whitespace-delimited token of a data row
    parts,      \* the tokens that row reconstruction makes of it
    mergeFlag,              \* args[2] is --merge or -m
    currentSection,         \* parseContentEnhanced: { gender, category }
    eventHeaders,           \* parseContentEnhanced: the event keys of the table
    inTable,                \* parseContentEnhanced
    pointsColumnPosition,   \* parseContentEnhanced: Null, Some("left"), Some("right")
    tables,                 \* this.tables: gender -> category -> event -> entries
    pendingTables,          \* this.tables as the last cleanAndSortData found it
    outputFile,             \* the text of the file at outputPath, Null without one
    minifiedFile,           \* the text of the .min.json file, Null without one
    linesRead,              \* the lines scanned so far
    currentLine,            \* parseContentEnhanced: line, the line the loop is at
    websiteFile,            \* the text of the copy in public/data, Null without one
    warnings,               \* what the run warned of: "load", "publish"
    summaryPrinted,         \* printSummary was called in the run
    exitStatus,             \* Null while the run goes on, then Some exit status
    callLine,               \* the line one detector or parser is called with
    callEvents,             \* the event keys parseCrossReferencedRow is called with
    callSide,               \* the points side parseCrossReferencedRow is called with
    callResult,             \* what the call returned
    data,                   \* ScoringDataLoader: this.data, Null or Some payload
    isLoading,              \* ScoringDataLoader: this.isLoading
    loadPromise,            \* ScoringDataLoader: this.loadPromise, Null or Some promise
    fetches,                \* the fetches started so far, in the order they started
    loadReturn,             \* what the last load() resolved its caller with
    loadCalls,              \* the calls of load() so far
    clearCalls              \* the calls of clear() so far

normVars == <<eventStr, key, rekey>>

tokVars == <<token, parts>>

scanVars == <<currentSection, eventHeaders, inTable, pointsColumnPosition>>

fileVars == <<outputFile, minifiedFile>>

outVars == <<websiteFile, warnings, summaryPrinted, exitStatus>>

runVars ==
    <<mergeFlag, scanVars, tables, pendingTables, fileVars, linesRead, currentLine, outVars>>

callVars == <<callLine, callEvents, callSide, callResult>>

loaderVars == <<data, isLoading, loadPromise, fetches, loadReturn, loadCalls, clearCalls>>

vars == <<pc, normVars, tokVars, runVars, callVars, loaderVars>>

NormIdle == eventStr = "" /\ key = Null /\ rekey = Null

TokIdle == token = "" /\ parts = <<>>

\* the loader as its constructor leaves it, nothing called yet
LoaderStart ==
    /\ data = Null
    /\ isLoading = FALSE
    /\ loadPromise = Null
    /\ fetches = <<>>
    /\ loadReturn = Null
    /\ loadCalls = 0
    /\ clearCalls = 0

CallIdle == callLine = "" /\ callEvents = <<>> /\ callSide = "left" /\ callResult = Null

\* the locals of parseContentEnhanced before its loop
ScanStart ==
    /\ currentSection = [gender |-> Null, category |-> Null]
    /\ eventHeaders = <<>>
    /\ inTable = FALSE
    /\ pointsColumnPosition = Null

\* a run that has warned of nothing and has not come to its end
RunStart == warnings = {} /\ summaryPrinted = FALSE /\ exitStatus = Null

\* no run of the extractor: no tables, no files
RunIdle ==
    /\ mergeFlag = FALSE
    /\ ScanStart
    /\ tables = EmptyObject
    /\ pendingTables = EmptyObject
    /\ outputFile = Null
    /\ minifiedFile = Null
    /\ linesRead = 0
    /\ currentLine = ""
    /\ websiteFile = Null
    /\ RunStart

(***************************************************************************)
(* normalizeEventName as a function of its argument                        *)
(***************************************************************************)

\* the longest descriptor tried, in pieces
MaxDescPieces == 3

\* the pieces header descriptors are made of
DescPieces ==
    {"10", "4x400", ",000", "m", " m", "km", " miles", "mile", "mix", "MW", "mw",
     "h", " sh", "w", "hept", ".", "Marathon"}

Descriptors == {Concat(q) : q \in SeqsUpTo(DescPieces, MaxDescPieces)}

NormInit ==
    /\ pc = "descriptor"
    /\ eventStr \in Descriptors
    /\ key = Null /\ rekey = Null
    /\ TokIdle
    /\ LoaderStart
    /\ RunIdle
    /\ CallIdle

Normalize ==
    /\ pc = "descriptor"
    /\ key' = normalizeEventName(eventStr)
    /\ pc' = "normalized"
    /\ UNCHANGED <<eventStr, rekey, tokVars, loaderVars, runVars, callVars>>

Renormalize ==
    /\ pc = "normalized"
    /\ key # Null
    /\ rekey' = normalizeEventName(key[1])
    /\ pc' = "renormalized"
    /\ UNCHANGED <<eventStr, key, tokVars, loaderVars, runVars, callVars>>

NormNext == Normalize \/ Renormalize

SpecNorm == NormInit /\ [][NormNext]_vars

(***************************************************************************)
(* Row reconstruction as a function of one token                           *)
(***************************************************************************)

\* the longest token tried, in pieces
MaxTokenPieces == 3

\* the pieces tokens are made of: dashes, two-decimal literals, and fragments
TokenPieces ==
    {"-", "-5.79", "-9.50", "-19.42", "9.52", "19.03", "1:23", ".45", "9", "1400", "x"}

Tokens == {Concat(q) : q \in SeqsUpTo(TokenPieces, MaxTokenPieces)} \ {""}

TokInit ==
    /\ pc = "token"
    /\ token \in Tokens
    /\ parts = <<>>
    /\ NormIdle
    /\ LoaderStart
    /\ RunIdle
    /\ CallIdle

Reconstruct ==
    /\ pc = "token"
    /\ parts' = ReconstructToken(token)
    /\ pc' = "reconstructed"
    /\ UNCHANGED <<token, normVars, loaderVars, runVars, callVars>>

TokNext == Reconstruct

SpecTok == TokInit /\ [][TokNext]_vars

(***************************************************************************)
(* detectTableHeaders as a function of one line                            *)
(***************************************************************************)

\* the longest header line tried, in tokens
MaxHeaderTokens == 4

\* the tokens header lines are made of: points columns, event descriptors, a
\* modifier that joins the descriptor before it, and a word that is no event
HeaderTokens == {"Points", "point", "100m", "200m", "400m", "sh", "xyz"}

RECURSIVE JoinWords(_)
JoinWords(words) ==
    IF words = <<>> THEN ""
    ELSE IF Len(words) = 1 THEN words[1]
    ELSE words[1] \o " " \o JoinWords(Tail(words))

HeaderWords == SeqsUpTo(HeaderTokens, MaxHeaderTokens) \ {<<>>}

HeadInit ==
    /\ pc = "line"
    /\ callLine \in {JoinWords(words) : words \in HeaderWords}
    /\ callEvents = <<>> /\ callSide = "left" /\ callResult = Null
    /\ NormIdle
    /\ TokIdle
    /\ LoaderStart
    /\ RunIdle

DetectHeaders ==
    /\ pc = "line"
    /\ callResult' = detectTableHeaders(callLine)
    /\ pc' = "detected"
    /\ UNCHANGED <<callLine, callEvents, callSide, normVars, tokVars, loaderVars, runVars>>

HeadNext == DetectHeaders

SpecHead == HeadInit /\ [][HeadNext]_vars

(***************************************************************************)
(* detectSection applied to one line                                       *)
(***************************************************************************)

MaxSectionWords == 2

\* the words heading lines are made of: the gender words in both languages, a word
\* that holds "men" without being one, a category keyword and a word of no meaning
SectionTokens == {"Women", "MEN", "Femmes", "hommes", "Mixed", "mixte",
                  "tournament", "Sprints", "Page"}

SectionWords == SeqsUpTo(SectionTokens, MaxSectionWords) \ {<<>>}

SectionInit ==
    /\ pc = "heading"
    /\ callLine \in {JoinWords(words) : words \in SectionWords}
    /\ callEvents = <<>> /\ callSide = "left" /\ callResult = Null
    /\ NormIdle
    /\ TokIdle
    /\ LoaderStart
    /\ RunIdle

DetectSection ==
    /\ pc = "heading"
    /\ callResult' = detectSection(callLine)
    /\ pc' = "sectioned"
    /\ UNCHANGED <<callLine, callEvents, callSide, normVars, tokVars, loaderVars, runVars>>

SectionNext == DetectSection

SpecSection == SectionInit /\ [][SectionNext]_vars

(***************************************************************************)
(* parseCrossReferencedRow as a function of one line, the event keys of    *)
(* the table and its points side                                           *)
(***************************************************************************)

\* the longest row tried, in tokens
MaxRowTokens == 3

\* the tokens rows are made of: points in and out of the range, performances, a dash
\* placeholder, a word, a number with letters after it, and a value with a dash
\* fused to it
RowTokens == {"1400", "1501", "0", "9.46", "3:10", "-", "abc", "12abc", "7.20-"}

RowWords == SeqsUpTo(RowTokens, MaxRowTokens) \ {<<>>}

\* the event keys of the tables the rows are read in
RowHeaders == {<<"100m">>, <<"100m", "lj">>}

RowInit ==
    /\ pc = "row"
    /\ callLine \in {JoinWords(words) : words \in RowWords}
    /\ callEvents \in RowHeaders
    /\ callSide \in {"left", "right"}
    /\ callResult = Null
    /\ NormIdle
    /\ TokIdle
    /\ LoaderStart
    /\ RunIdle

ParseRow ==
    /\ pc = "row"
    /\ callResult' = parseCrossReferencedRow(callLine, callEvents, callSide)
    /\ pc' = "parsed"
    /\ UNCHANGED <<callLine, callEvents, callSide, normVars, tokVars, loaderVars, runVars>>

RowNext == ParseRow

SpecRow == RowInit /\ [][RowNext]_vars

(***************************************************************************)
(* One line of a table, parsed and stored, as a function of the section,   *)
(* the event keys of the table and the line                                *)
(***************************************************************************)

\* the most event keys of a table
MaxStoreEvents == 2

\* event keys in the catalog and event keys that normalize without being in it
StoreKeys == {"100m", "lj", "250m", "4x300mix"}

StoreHeaders == SeqsUpTo(StoreKeys, MaxStoreEvents) \ {<<>>}

StoreRows == {"1400 9.46 3:10", "1400 - 3:10", "1400 9.46", "0 9.46 3:10"}

StoreSections ==
    [gender : {Null, Some("men")}, category : {Null, Some("hurdles")}]

StoreInit ==
    /\ pc = "row"
    /\ NormIdle
    /\ TokIdle
    /\ LoaderStart
    /\ callLine \in StoreRows
    /\ callEvents \in StoreHeaders
    /\ callSide = "left"
    /\ callResult = Null
    /\ mergeFlag = FALSE
    /\ currentSection \in StoreSections
    /\ eventHeaders = callEvents
    /\ inTable = TRUE
    /\ pointsColumnPosition = Some(callSide)
    /\ tables = EmptyObject
    /\ pendingTables = EmptyObject
    /\ outputFile = Null
    /\ minifiedFile = Null
    /\ linesRead = 0
    /\ currentLine = ""
    /\ websiteFile = Null
    /\ RunStart

\* const dataRow = this.parseCrossReferencedRow(...); if (dataRow && dataRow.points
\* !== null) this.storeCrossReferencedData(currentSection, dataRow)
StoreRow ==
    /\ pc = "row"
    /\ \E dataRow \in {parseCrossReferencedRow(callLine, eventHeaders,
                                               pointsColumnPosition[1])} :
            /\ callResult' = dataRow
            /\ tables' = IF dataRow = Null THEN tables
                         ELSE storeCrossReferencedData(tables, currentSection,
                                                       dataRow[1])
    /\ pc' = "stored"
    /\ UNCHANGED <<callLine, callEvents, callSide, normVars, tokVars, loaderVars, mergeFlag,
                   scanVars, pendingTables, fileVars, linesRead, currentLine, outVars>>

StoreNext == StoreRow

SpecStore == StoreInit /\ [][StoreNext]_vars

(***************************************************************************)
(* A run of the extractor: the scan of the text, line by line, and the      *)
(* export; then another run over the files the first one left               *)
(***************************************************************************)

\* the lines scanned over all runs of a behaviour
MaxLines == 5

\* the lines the text is made of: section headings (one of a category that reads as a
\* table header too), a table header, data rows (one with points above the range,
\* one with points 0, two with the same performance), a page marker, and a line that
\* is nothing
Lines ==
    {"MEN", "Women", "Points 200m Hurdles", "Points 100m 4x400mix",
     "1400 9.46 3:10", "1300 9.46 -", "1300 9.60", "1501 9.41 3:05", "0 9.99",
     "Page 3", ""}

\* a table as an earlier run exported it
PriorTables ==
    ("men" :> ("sprints" :> ("100m" :> <<ObjectEntry("9.41", 1450)>>)))

PrettyJson(tbl) == CompactPairs(Stringify(CompactData(tbl), TRUE))

MinifiedJson(tbl) == Stringify(CompactData(tbl), FALSE)

Init ==
    /\ pc = "scan"
    /\ NormIdle
    /\ TokIdle
    /\ LoaderStart
    /\ CallIdle
    /\ mergeFlag \in BOOLEAN
    /\ ScanStart
    /\ tables = EmptyObject
    /\ pendingTables = EmptyObject
    /\ \/ outputFile = Null /\ minifiedFile = Null
       \/ /\ outputFile = Some(PrettyJson(PriorTables))
          /\ minifiedFile = Some(MinifiedJson(PriorTables))
    /\ websiteFile = minifiedFile
    /\ linesRead = 0
    /\ currentLine = ""
    /\ RunStart

\* the loop reads its next line
ReadLine(line) ==
    /\ pc = "scan"
    /\ linesRead < MaxLines
    /\ linesRead' = linesRead + 1
    /\ currentLine' = line
    /\ pc' = pc
    /\ UNCHANGED <<normVars, tokVars, loaderVars, callVars, mergeFlag, pendingTables,
                   fileVars, outVars>>

\* if (!line) continue, and a line that is no heading, no header and no row of a table
IsSkipped(line, sectionInfo, headers) ==
    \/ line = ""
    \/ /\ sectionInfo = Null
       /\ headers = Null
       /\ ~(inTable /\ eventHeaders # <<>>)

SkipLine(text) ==
    \E line \in {Trim(text)} :
    \E sectionInfo \in {detectSection(line)}, headers \in {detectTableHeaders(line)} :
        /\ ReadLine(line)
        /\ IsSkipped(line, sectionInfo, headers)
        /\ UNCHANGED <<scanVars, tables>>

\* a section heading that leaves inTable as it is
SectionLineKeepsTable(text) ==
    \E line \in {Trim(text)} :
    \E sectionInfo \in {detectSection(line)} :
        /\ ReadLine(line)
        /\ line # ""
        /\ sectionInfo # Null
        /\ currentSection' = MergeSection(currentSection, sectionInfo[1])
        /\ UNCHANGED <<inTable, eventHeaders, pointsColumnPosition, tables>>

\* a section heading that is offered to the header detector as well
SectionLineAlsoHeader(text) ==
    \E line \in {Trim(text)} :
    \E sectionInfo \in {detectSection(line)}, headers \in {detectTableHeaders(line)} :
        /\ ReadLine(line)
        /\ line # ""
        /\ sectionInfo # Null
        /\ currentSection' = MergeSection(currentSection, sectionInfo[1])
        /\ inTable' = (headers # Null)
        /\ eventHeaders' = IF headers # Null THEN headers[1].events ELSE eventHeaders
        /\ pointsColumnPosition' = IF headers # Null THEN Some(headers[1].pointsPosition)
                                   ELSE pointsColumnPosition
        /\ UNCHANGED tables

\* a section heading
SectionLine(text) ==
    \E line \in {Trim(text)} :
    \E sectionInfo \in {detectSection(line)} :
        /\ ReadLine(line)
        /\ line # ""
        /\ sectionInfo # Null
        /\ currentSection' = MergeSection(currentSection, sectionInfo[1])
        /\ inTable' = FALSE
        /\ UNCHANGED <<eventHeaders, pointsColumnPosition, tables>>

\* a table header row that replaces the events and keeps the points side of the
\* header before it
HeaderLineKeepsSide(text) ==
    \E line \in {Trim(text)} :
    \E sectionInfo \in {detectSection(line)}, headers \in {detectTableHeaders(line)} :
        /\ ReadLine(line)
        /\ line # ""
        /\ sectionInfo = Null
        /\ headers # Null
        /\ eventHeaders' = headers[1].events
        /\ pointsColumnPosition' = IF pointsColumnPosition = Null
                                   THEN Some(headers[1].pointsPosition)
                                   ELSE pointsColumnPosition
        /\ inTable' = TRUE
        /\ UNCHANGED <<currentSection, tables>>

\* a table header row
HeaderLine(text) ==
    \E line \in {Trim(text)} :
    \E sectionInfo \in {detectSection(line)}, headers \in {detectTableHeaders(line)} :
        /\ ReadLine(line)
        /\ line # ""
        /\ sectionInfo = Null
        /\ headers # Null
        /\ eventHeaders' = headers[1].events
        /\ pointsColumnPosition' = Some(headers[1].pointsPosition)
        /\ inTable' = TRUE
        /\ UNCHANGED <<currentSection, tables>>

\* the line is read in a table: neither a heading nor a header
InTableLine(line, sectionInfo, headers) ==
    /\ line # ""
    /\ sectionInfo = Null
    /\ headers = Null
    /\ inTable /\ eventHeaders # <<>>

\* a table end marker
TableEndLine(text) ==
    \E line \in {Trim(text)} :
    \E sectionInfo \in {detectSection(line)}, headers \in {detectTableHeaders(line)} :
        /\ ReadLine(line)
        /\ InTableLine(line, sectionInfo, headers)
        /\ isTableEnd(line)
        /\ inTable' = FALSE
        /\ eventHeaders' = <<>>
        /\ UNCHANGED <<currentSection, pointsColumnPosition, tables>>

\* a line of a table: a data row is stored, anything else is passed over
RowLine(text) ==
    \E line \in {Trim(text)} :
    \E sectionInfo \in {detectSection(line)}, headers \in {detectTableHeaders(line)} :
        /\ ReadLine(line)
        /\ InTableLine(line, sectionInfo, headers)
        /\ ~isTableEnd(line)
        /\ \E dataRow \in {parseCrossReferencedRow(line, eventHeaders,
                                                   pointsColumnPosition[1])} :
                tables' = IF dataRow = Null THEN tables
                          ELSE storeCrossReferencedData(tables, currentSection,
                                                        dataRow[1])
        /\ UNCHANGED scanVars

\* a publish step that throws out of exportToJSON: no summary, and main exits with 1
PublishFailureIsFatal(publishFailed) ==
    [summary |-> ~publishFailed, status |-> IF publishFailed THEN 1 ELSE 0]

\* after the try and catch around the publish step: printSummary, the return to main,
\* which has nothing left to do but end
AfterPublish(publishFailed) == [summary |-> TRUE, status |-> 0]

\* the end of the text: exportToJSON(outputJSON, mergeFlag), and the end of main.
\* The publish step (existsSync, mkdirSync, copyFileSync) fails or does not, as the
\* file system the run is on lets it: failures is {FALSE} where public/data can be
\* written, BOOLEAN where it may be that it cannot.
Export(failures) ==
    /\ pc = "scan"
    /\ \E merged \in {IF mergeFlag THEN loadAndMerge(tables, outputFile) ELSE tables},
          loadWarned \in {mergeFlag /\ LoadWarns(tables, outputFile)},
          publishFailed \in failures :
            /\ pendingTables' = merged
            /\ \E cleaned \in cleanAndSortData(merged) :
                /\ tables' = cleaned
                /\ outputFile' = Some(PrettyJson(cleaned))
                /\ minifiedFile' = Some(MinifiedJson(cleaned))
                /\ websiteFile' = IF publishFailed THEN websiteFile
                                  ELSE Some(MinifiedJson(cleaned))
            /\ warnings' = {w \in {"load"} : loadWarned}
                                \cup {w \in {"publish"} : publishFailed}
            /\ \E outcome \in {AfterPublish(publishFailed)} :
                /\ summaryPrinted' = outcome.summary
                /\ exitStatus' = Some(outcome.status)
    /\ pc' = "done"
    /\ UNCHANGED <<normVars, tokVars, loaderVars, callVars, mergeFlag, scanVars, linesRead,
                   currentLine>>

\* main ends the run with status 1: the PDF is not at its path, or extract throws
\* before the first line is scanned
FailRun ==
    /\ pc = "scan"
    /\ ScanStart
    /\ tables = EmptyObject
    /\ currentLine = ""
    /\ RunStart
    /\ exitStatus' = Some(1)
    /\ pc' = "failed"
    /\ UNCHANGED <<normVars, tokVars, loaderVars, callVars, mergeFlag, scanVars, tables,
                   pendingTables,
                   fileVars, linesRead, currentLine, websiteFile, warnings,
                   summaryPrinted>>

\* the tool is run again, on another text, with the files the last run left
NewRun ==
    /\ pc \in {"done", "failed"}
    /\ pc' = "scan"
    /\ mergeFlag' \in BOOLEAN
    /\ currentSection' = [gender |-> Null, category |-> Null]
    /\ eventHeaders' = <<>>
    /\ inTable' = FALSE
    /\ pointsColumnPosition' = Null
    /\ tables' = EmptyObject
    /\ pendingTables' = EmptyObject
    /\ currentLine' = ""
    /\ warnings' = {}
    /\ summaryPrinted' = FALSE
    /\ exitStatus' = Null
    /\ UNCHANGED <<normVars, tokVars, loaderVars, callVars, fileVars, linesRead, websiteFile>>

Next ==
    \/ \E text \in Lines : SkipLine(text)
    \/ \E text \in Lines : SectionLine(text)
    \/ \E text \in Lines : HeaderLine(text)
    \/ \E text \in Lines : TableEndLine(text)
    \/ \E text \in Lines : RowLine(text)
    \/ Export({FALSE})
    \/ FailRun
    \/ NewRun

Spec == Init /\ [][Next]_vars

(***************************************************************************)
(* The scan of a text of headers and rows: a header with a descriptor that  *)
(* does not normalize, a candidate header without any event, a header with  *)
(* the points column last, rows for either, and a page marker               *)
(***************************************************************************)

TableLines ==
    {"MEN", "Points xyz 100m", "Points xyz", "lj Points",
     "1400 9.99 9.46", "7.20 1300", "Page 3"}

TableInit ==
    /\ pc = "scan"
    /\ NormIdle
    /\ TokIdle
    /\ LoaderStart
    /\ CallIdle
    /\ RunIdle

TableNext ==
    \/ \E text \in TableLines : SkipLine(text)
    \/ \E text \in TableLines : SectionLine(text)
    \/ \E text \in TableLines : HeaderLine(text)
    \/ \E text \in TableLines : TableEndLine(text)
    \/ \E text \in TableLines : RowLine(text)

SpecTable == TableInit /\ [][TableNext]_vars

(***************************************************************************)
(* The end of a run: the export of the tables a scan has left, over the     *)
(* file an earlier run or anything else has left at the output path         *)
(***************************************************************************)

\* the tables at the end of a scan of the heading "MEN", the header "Points 100m",
\* rows and the marker "Page 3": without a stored row, and with two
ScannedTables ==
    {EmptyObject,
     ("men" :> ("sprints" :> ("100m" :> <<ObjectEntry("9.60", 1300),
                                          ObjectEntry("9.46", 1400)>>)))}

\* a file cut off in its first line
TruncatedFile == "{\n  \"men\": {"

\* a file that is JSON, with a number where the list of an event is to be
MisshapenFile == "{\"men\":{\"sprints\":{\"60m\":[[1400,\"6.50\"]],\"100m\":5}}}"

ExportInit ==
    /\ pc = "scan"
    /\ NormIdle
    /\ TokIdle
    /\ LoaderStart
    /\ CallIdle
    /\ mergeFlag \in BOOLEAN
    /\ currentSection = [gender |-> Some("men"), category |-> Null]
    /\ eventHeaders = <<>>
    /\ inTable = FALSE
    /\ pointsColumnPosition = Some("left")
    /\ tables \in ScannedTables
    /\ pendingTables = EmptyObject
    /\ outputFile \in {Null, Some(PrettyJson(PriorTables)), Some(TruncatedFile),
                        Some(MisshapenFile)}
    /\ minifiedFile = IF outputFile = Some(PrettyJson(PriorTables))
                      THEN Some(MinifiedJson(PriorTables))
                      ELSE Null
    /\ websiteFile = Null
    /\ linesRead = 0
    /\ currentLine = "Page 3"
    /\ RunStart

ExportNext == Export(BOOLEAN) \/ FailRun \/ NewRun

SpecExport == ExportInit /\ [][ExportNext]_vars

(***************************************************************************)
(* The scoring data loader of the web pages (scoring-data-loader.js).  A   *)
(* call of load() or clear() runs to its end without interruption: load()  *)
(* has no await in its body, and fetchData runs up to its fetch() when it  *)
(* is called.  A fetch is named by its place in fetches, and the promise   *)
(* load() chains on a fetch and the payload the fetch delivers are named   *)
(* by the fetch.                                                           *)
(***************************************************************************)

MaxLoadCalls == 8

MaxClearCalls == 2

\* the object the file on the server parses to
ServedTables == PriorTables

\* the fetches whose response has not come yet
InFlight == {f \in 1..Len(fetches) : fetches[f].state = "pending"}

\* load() without the test of isLoading: every call without cached data fetches
LoadAlwaysFetches ==
    /\ pc = "loader"
    /\ loadCalls < MaxLoadCalls
    /\ loadCalls' = loadCalls + 1
    /\ IF data # Null
       THEN /\ loadReturn' = Some([kind |-> "data", of |-> data])
            /\ UNCHANGED <<data, isLoading, loadPromise, fetches>>
       ELSE /\ isLoading' = TRUE
            /\ fetches' = Append(fetches, [state |-> "pending", clears |-> clearCalls])
            /\ loadPromise' = Some(Len(fetches) + 1)
            /\ loadReturn' = Some([kind |-> "promise", of |-> loadPromise'])
            /\ data' = data
    /\ UNCHANGED <<pc, clearCalls, normVars, tokVars, runVars, callVars>>

\* a call of load(): the cached data, the promise of the load that is going on, or
\* the promise of a fetch it starts.  The record of a fetch keeps the number of
\* clear() calls made before it started.
load ==
    /\ pc = "loader"
    /\ loadCalls < MaxLoadCalls
    /\ loadCalls' = loadCalls + 1
    /\ IF data # Null
       THEN /\ loadReturn' = Some([kind |-> "data", of |-> data])
            /\ UNCHANGED <<data, isLoading, loadPromise, fetches>>
       ELSE IF isLoading
       THEN /\ loadReturn' = Some([kind |-> "promise", of |-> loadPromise])
            /\ UNCHANGED <<data, isLoading, loadPromise, fetches>>
       ELSE /\ isLoading' = TRUE
            /\ fetches' = Append(fetches, [state |-> "pending", clears |-> clearCalls])
            /\ loadPromise' = Some(Len(fetches) + 1)
            /\ loadReturn' = Some([kind |-> "promise", of |-> loadPromise'])
            /\ data' = data
    /\ UNCHANGED <<pc, clearCalls, normVars, tokVars, runVars, callVars>>

\* the response of a fetch is ok and parses to an object: fetchData returns it and
\* the then-callback of load() runs
FetchFulfilled(f) ==
    /\ pc = "loader"
    /\ f \in InFlight
    /\ fetches' = [fetches EXCEPT ![f].state = "fulfilled"]
    /\ data' = Some(f)
    /\ isLoading' = FALSE
    /\ UNCHANGED <<pc, loadPromise, loadReturn, loadCalls, clearCalls,
                   normVars, tokVars, runVars, callVars>>

\* the fetch fails, the response is not ok or its body is no object: fetchData
\* throws and the catch-callback of load() runs
FetchRejected(f) ==
    /\ pc = "loader"
    /\ f \in InFlight
    /\ fetches' = [fetches EXCEPT ![f].state = "rejected"]
    /\ isLoading' = FALSE
    /\ UNCHANGED <<pc, data, loadPromise, loadReturn, loadCalls, clearCalls,
                   normVars, tokVars, runVars, callVars>>

clear ==
    /\ pc = "loader"
    /\ clearCalls < MaxClearCalls
    /\ clearCalls' = clearCalls + 1
    /\ data' = Null
    /\ isLoading' = FALSE
    /\ loadPromise' = Null
    /\ UNCHANGED <<pc, fetches, loadReturn, loadCalls, normVars, tokVars, runVars, callVars>>

isDataLoaded == data # Null

getGenders == IF data = Null THEN <<>> ELSE KeySeq(ServedTables)

getCategories(gender) ==
    IF data = Null \/ gender \notin DOMAIN ServedTables THEN <<>>
    ELSE KeySeq(ServedTables[gender])

LoaderInit ==
    /\ pc = "loader"
    /\ NormIdle
    /\ TokIdle
    /\ CallIdle
    /\ RunIdle
    /\ LoaderStart

\* load() calls and the responses of their fetches, without any clear()
LoadNext ==
    \/ load
    \/ \E f \in 1..MaxLoadCalls : FetchFulfilled(f)
    \/ \E f \in 1..MaxLoadCalls : FetchRejected(f)

SpecLoad == LoaderInit /\ [][LoadNext]_vars

LoaderNext ==
    \/ load
    \/ clear
    \/ \E f \in 1..MaxLoadCalls : FetchFulfilled(f)
    \/ \E f \in 1..MaxLoadCalls : FetchRejected(f)

SpecLoader == LoaderInit /\ [][LoaderNext]_vars

(***************************************************************************)
(* Properties                                                              *)
(***************************************************************************)

\* C8: normalizeEventName is idempotent: when it returns a key for a descriptor, it
\* returns that same key for the key.
NormalizeIdempotent == pc = "renormalized" => rekey = key

\* a descriptor that normalization rewrote, normalized again: among them the
\* comma-grouped walk key and a combined-event key whose period was stripped
NormalizeIdempotentWitness ==
    /\ pc = "renormalized"
    /\ \/ eventStr = "10,000MW" /\ key = Some("10,000mW")
       \/ eventStr = "hept. sh" /\ key = Some("hept sh")
       \/ eventStr = "10mh" /\ key = Some("10m h")

\* digits, then '.' or ':', then exactly two digits
IsTwoDecimalLiteral(t) ==
    /\ Len(t) >= 4
    /\ \A i \in 1..(Len(t) - 3) : IsDigit(Ch(t, i))
    /\ Ch(t, Len(t) - 2) \in Separator
    /\ IsDigit(Ch(t, Len(t) - 1)) /\ IsDigit(Ch(t, Len(t)))

\* the ways to write t as a concatenation of dash characters and two-decimal literals
RECURSIVE Decompositions(_)
Decompositions(t) ==
    IF t = "" THEN {<<>>}
    ELSE UNION {{<<Slice(t, 1, k)>> \o d : d \in Decompositions(From(t, k + 1))} :
                k \in {n \in 1..Len(t) :
                          Slice(t, 1, n) = "-" \/ IsTwoDecimalLiteral(Slice(t, 1, n))}}

\* C9: a token that is a concatenation of dash characters and at least one two-decimal
\* literal is reconstructed into exactly those components, in their order.
ReconstructionExact ==
    pc = "reconstructed" =>
        \A d \in Decompositions(token) :
            (\E i \in 1..Len(d) : d[i] # "-") => parts = d

\* the example of the specification (a prefix of it and the whole, in three pieces)
\* and two literals written without a separator
ReconstructionExactWitness ==
    /\ pc = "reconstructed"
    /\ \/ token = "-5.79-9.50-19.42"
          /\ parts = <<"-", "5.79", "-", "9.50", "-", "19.42">>
       \/ token = "9.5219.03" /\ parts = <<"9.52", "19.03">>

\* a performance in the fixed two-decimal form of the table: seconds (9.52) or
\* minutes:seconds (1:23.45), with hundredths
IsFixedPrecisionLiteral(t) ==
    \/ /\ IsTwoDecimalLiteral(t)
       /\ Ch(t, Len(t) - 2) = "."
    \/ \E k \in 2..(Len(t) - 5) :
          /\ \A i \in 1..(k - 1) : IsDigit(Ch(t, i))
          /\ Ch(t, k) = ":"
          /\ IsDigit(Ch(t, k + 1)) /\ IsDigit(Ch(t, k + 2))
          /\ Ch(t, k + 3) = "."
          /\ IsDigit(Ch(t, k + 4)) /\ IsDigit(Ch(t, k + 5))
          /\ k + 5 = Len(t)

\* C10: a token that is one performance literal in the fixed two-decimal form passes
\* through row reconstruction as one token with its exact text, and that text is the
\* performance value.
LiteralPassesThrough ==
    (pc = "reconstructed" /\ IsFixedPrecisionLiteral(token)) =>
        /\ parts = <<token>>
        /\ parsePerformanceValue(parts[1]) = Some(token)


\* the indices of a list whose entry has the performance value v
WithPerformance(list, v) == {i \in 1..Len(list) : list[i].performance = v}

JsAtLeast(a, b) == a.t = "num" /\ b.t = "num" /\ a.n >= b.n

\* C2: after cleanAndSortData, in every event's entry list entries[i].points >=
\* entries[i+1].points for every valid index i.
SortedByPoints ==
    pc = "done" =>
        \A leaf \in Leaves(tables) :
            LET entries == ListAt(tables, leaf)
            IN  \A i \in 1..(Len(entries) - 1) :
                    JsAtLeast(entries[i].points, entries[i + 1].points)

\* C3: after cleanAndSortData, no event's entry list contains two entries with equal
\* performance values.
UniquePerformances ==
    pc = "done" =>
        \A leaf \in Leaves(tables) :
            LET entries == ListAt(tables, leaf)
            IN  \A i, j \in 1..Len(entries) :
                    i # j => entries[i].performance # entries[j].performance

\* a leaf that lost a duplicate and kept two entries with different performances
UniquePerformancesWitness ==
    /\ pc = "done"
    /\ \E leaf \in Leaves(pendingTables) :
        /\ Len(ListAt(tables, leaf)) >= 2
        /\ Len(ListAt(pendingTables, leaf)) > Len(ListAt(tables, leaf))

\* C4: after an export with the merge flag, every [points, performance] pair that
\* loadAndMerge took from the file at the output path is in the exported list of its
\* leaf, unless an entry with the same performance and higher points supersedes it.
MergeKeepsPriorPairs ==
    (pc = "done" /\ mergeFlag) =>
        \A leaf \in Leaves(pendingTables) :
            LET pending == ListAt(pendingTables, leaf)
                exported == ListAt(JsonParse(outputFile[1])[1], leaf)
            IN  \A i \in 1..Len(pending) :
                    pending[i].items # <<>> =>
                        \E k \in 1..Len(exported) :
                            /\ exported[k][2] = pending[i].items[2]
                            /\ \/ exported[k][1] = pending[i].items[1]
                               \/ JsLess(pending[i].items[1], exported[k][1])

\* all entries of a table
Entries(tbl) ==
    UNION {{ListAt(tbl, leaf)[i] : i \in 1..Len(ListAt(tbl, leaf))} : leaf \in Leaves(tbl)}

\* C5: while lines are scanned, every entry stored in the tables has points that is an
\* integer from 0 to 1500: a row with points outside this range adds no entry.
StoredPointsInRange ==
    pc = "scan" =>
        \A entry \in Entries(tables) :
            /\ entry.points.t = "num"
            /\ entry.points.n \in 0..1500

\* two rows of a table were stored under a section heading, the scan still in the
\* table
StoredPointsInRangeWitness ==
    /\ pc = "scan"
    /\ inTable
    /\ \E entry \in Entries(tables) : entry.points = JNum(1400)
    /\ \E entry \in Entries(tables) : entry.points = JNum(1300)

\* C6: no event key containing "mix" exists under a gender other than "mixed".
MixedEventsUnderMixed ==
    \A leaf \in Leaves(tables) :
        Includes(leaf[3], "mix") => leaf[1] = "mixed"

\* a mixed relay stored while the section is men or women
MixedEventsUnderMixedWitness ==
    /\ pc = "scan"
    /\ currentSection.gender \in {Some("men"), Some("women")}
    /\ \E leaf \in Leaves(tables) :
        /\ leaf = <<"mixed", "relays", "4x400mix">>
        /\ Len(ListAt(tables, leaf)) >= 1

\* C7: the exported lists are the entries of the tables in their order after cleaning,
\* as [points, performance] pairs of an integer and a string, and the pretty and the
\* minified texts decode to the same structure.
ExportIsFaithful ==
    pc = "done" =>
        /\ JsonParse(outputFile[1]) # Null
        /\ JsonParse(outputFile[1]) = JsonParse(minifiedFile[1])
        /\ JsonParse(minifiedFile[1])[1] = CompactData(tables)
        /\ \A entry \in Entries(tables) :
            entry.points.t = "num" /\ entry.performance.t = "str"

\* the token has "point" in it, in any case: what /points?/i finds
MatchesPoints(tok) ==
    \E i \in 1..Len(tok) : ToLowerCase(Slice(tok, i, i + 4)) = "point"

\* the descriptors of an event token stream: a magnitude with the unit after it, and
\* a descriptor with the modifier after it, are one descriptor
RECURSIVE HeaderDescriptors(_)
HeaderDescriptors(toks) ==
    IF toks = <<>> THEN <<>>
    ELSE LET unit == Len(toks) >= 2 /\ IsMagnitude(toks[1]) /\ IsUnit(toks[2])
             n1 == IF unit THEN 2 ELSE 1
             modifier == Len(toks) > n1 /\ IsModifier(toks[n1 + 1])
             n2 == IF modifier THEN n1 + 1 ELSE n1
         IN  <<JoinWords(SubSeq(toks, 1, n2))>> \o
             HeaderDescriptors(SubSeq(toks, n2 + 1, Len(toks)))

\* the keys of the descriptors that normalize, in their order
RECURSIVE NormalizedKeys(_)
NormalizedKeys(descriptors) ==
    IF descriptors = <<>> THEN <<>>
    ELSE normalizeEventName(Head(descriptors)) \o NormalizedKeys(Tail(descriptors))

\* the header of a points side and an event token stream, none without a key
HeaderOf(side, toks) ==
    LET events == NormalizedKeys(HeaderDescriptors(toks))
    IN  IF events = <<>> THEN Null
        ELSE Some([events |-> events, pointsPosition |-> side])

\* C11: detectTableHeaders returns the points side left when the first token of the
\* line is the points token and right when the last token is, with the event list
\* being the normalized remaining descriptors in their left-to-right order ("Points
\* 100m 200m 400m" and "100m 200m 400m Points" both give 100m, 200m, 400m), a line
\* none of whose descriptors normalizes being no header; a line that mentions
\* "point" but whose first and last tokens are both not the points token returns none.
HeaderSideAndEvents ==
    pc = "detected" =>
        LET toks == SplitWhitespace(callLine)
            n == Len(toks)
        IN  /\ n >= 2 /\ MatchesPoints(toks[1]) =>
                    callResult = HeaderOf("left", SubSeq(toks, 2, n))
            /\ n >= 2 /\ ~MatchesPoints(toks[1]) /\ MatchesPoints(toks[n]) =>
                    callResult = HeaderOf("right", SubSeq(toks, 1, n - 1))
            /\ ~MatchesPoints(toks[1]) /\ ~MatchesPoints(toks[n]) => callResult = Null
            /\ callLine = "Points 100m 200m 400m" =>
                    callResult = Some([events |-> <<"100m", "200m", "400m">>,
                                       pointsPosition |-> "left"])
            /\ callLine = "100m 200m 400m Points" =>
                    callResult = Some([events |-> <<"100m", "200m", "400m">>,
                                       pointsPosition |-> "right"])

\* a header with the points column last, one whose points token is "point" and whose
\* modifier joins the descriptor before it, and a line with the points token inside
HeaderSideAndEventsWitness ==
    /\ pc = "detected"
    /\ \/ callLine = "100m 200m 400m Points" /\ callResult # Null
       \/ /\ callLine = "point 200m sh xyz"
          /\ callResult = Some([events |-> <<"200m sh">>, pointsPosition |-> "left"])
       \/ callLine = "100m Points 200m" /\ callResult = Null

\* the tokens of the line after the repair of fused values
RepairedTokens(line) == FlatMapReconstruct(SplitWhitespace(line))

\* the repaired token that carries the points, and those that carry performances
PointsToken(line, side) ==
    LET toks == RepairedTokens(line)
    IN  IF side = "left" THEN toks[1] ELSE toks[Len(toks)]

PerformanceTokens(line, side) ==
    LET toks == RepairedTokens(line)
    IN  IF side = "left" THEN SubSeq(toks, 2, Len(toks))
        ELSE SubSeq(toks, 1, Len(toks) - 1)

\* the text consists solely of digits, '.' and ':'
OnlyDigitsDotsColons(v) ==
    v # "" /\ \A i \in 1..Len(v) : Ch(v, i) \in Digit \cup {".", ":"}

\* C12: for every accepted row, parseCrossReferencedRow returns a performances
\* sequence whose length equals the number of header event keys; position i holds the
\* i-th performance token when it consists solely of digits, '.' and ':', and none
\* when that token is a dash placeholder, is otherwise invalid, or does not exist
\* because the row has fewer tokens than events (header 100m, lj, left, row
\* "1400 9.46 -" gives points 1400 and "9.46", none).
PerformancesAlignWithHeader ==
    pc = "parsed" /\ callResult # Null =>
        LET performances == callResult[1].performances
            values == PerformanceTokens(callLine, callSide)
        IN  /\ DOMAIN performances = 1..Len(callEvents)
            /\ \A i \in 1..Len(callEvents) :
                    performances[i] =
                        IF i <= Len(values) /\ OnlyDigitsDotsColons(values[i])
                        THEN Some(values[i])
                        ELSE Null
            /\ callLine = "1400 9.46 -" /\ callEvents = <<"100m", "lj">>
                    /\ callSide = "left" =>
                    /\ callResult[1].points = 1400
                    /\ performances = <<Some("9.46"), Null>>

\* accepted rows with a dash, with a word, with fewer values than events, with more
\* values than events, and with a value repaired from a fused token
PerformancesAlignWithHeaderWitness ==
    /\ pc = "parsed"
    /\ callResult # Null
    /\ callEvents = <<"100m", "lj">>
    /\ \/ /\ callLine = "1400 9.46 -" /\ callSide = "left"
          /\ callResult[1].performances = <<Some("9.46"), Null>>
       \/ /\ callLine = "abc 3:10 1400" /\ callSide = "right"
          /\ callResult[1].performances = <<Null, Some("3:10")>>
       \/ /\ callLine = "1400 9.46" /\ callSide = "left"
          /\ callResult[1].performances = <<Some("9.46"), Null>>
       \/ /\ callLine = "1400 7.20-" /\ callSide = "left"
          /\ callResult[1].performances = <<Some("7.20"), Null>>

\* an optional sign and digits, nothing else
IsIntegerNumeral(tok) ==
    LET body == IF Ch(tok, 1) \in {"-", "+"} THEN From(tok, 2) ELSE tok
    IN  body # "" /\ \A i \in 1..Len(body) : IsDigit(Ch(body, i))

\* C13: with the points side left the first repaired token, and with the points side
\* right the last repaired token, must be an integer in [0,1500]; when that token is
\* non-numeric, is not an integer numeral, or is out of range, parseCrossReferencedRow
\* returns none.
PointsTokenIsIntegerInRange ==
    pc = "parsed" =>
        LET tok == PointsToken(callLine, callSide)
        IN  callResult # Null <=>
                /\ IsIntegerNumeral(tok)
                /\ parseInt(tok)[1] \in 0..1500

\* the categories events-config.js gives the event keys stored here; 250m and
\* 4x300mix are not in it
CatalogCategory == ("100m" :> "sprints" @@ "lj" :> "jumps")

\* the category a pair of the key is to be filed under in the section, none without
FilingCategory(eventName, section) ==
    IF eventName \in DOMAIN CatalogCategory THEN Some(CatalogCategory[eventName])
    ELSE section.category

\* the pairs of the row that carry a performance, under a section with a gender
StorablePairs ==
    IF callResult = Null \/ currentSection.gender = Null THEN {}
    ELSE IF callResult[1].points = 0 THEN {}
    ELSE {i \in 1..Len(callEvents) : callResult[1].performances[i] # Null}

\* C14: every stored entry is filed under the catalog category of its event key when
\* the key is in the event catalog, regardless of the current section category; when
\* the key is not in the catalog it is filed under the current section category; when
\* the key is not in the catalog and the section category is unset, the entry is not
\* stored and processing of the remaining pairs of the row continues.
FiledUnderCategory ==
    pc = "stored" =>
        /\ \A leaf \in Leaves(tables) :
                Some(leaf[2]) = FilingCategory(leaf[3], currentSection)
        /\ \A i \in StorablePairs :
                LET category == FilingCategory(callEvents[i], currentSection)
                    entry == ObjectEntry(callResult[1].performances[i][1],
                                         callResult[1].points)
                IN  IF category = Null
                    THEN \A leaf \in Leaves(tables) : leaf[3] # callEvents[i]
                    ELSE \E leaf \in Leaves(tables) :
                            /\ leaf[2] = category[1]
                            /\ leaf[3] = callEvents[i]
                            /\ \E k \in 1..Len(ListAt(tables, leaf)) :
                                    ListAt(tables, leaf)[k] = entry

\* a catalog key stored under its catalog category while the section category is
\* another, beside a key stored under the section category; and a key without any
\* category passed over, the pair after it stored
FiledUnderCategoryWitness ==
    /\ pc = "stored"
    /\ callLine = "1400 9.46 3:10"
    /\ currentSection.gender = Some("men")
    /\ \/ /\ currentSection.category = Some("hurdles")
          /\ callEvents = <<"100m", "250m">>
          /\ Leaves(tables) = {<<"men", "sprints", "100m">>, <<"men", "hurdles", "250m">>}
       \/ /\ currentSection.category = Null
          /\ callEvents = <<"250m", "lj">>
          /\ Leaves(tables) = {<<"men", "jumps", "lj">>}
          /\ ListAt(tables, <<"men", "jumps", "lj">>) = <<ObjectEntry("3:10", 1400)>>

\* C15: while the section's gender is unset (no gender heading has been detected yet),
\* no data row adds any entry to the tables, including rows whose event key contains
\* "mix"; the scan goes on to the next line.
NoEntryWithoutGender ==
    pc = "scan" /\ currentSection.gender = Null => tables = EmptyObject

\* a data row with a performance for a mixed relay, read in a table before any gender
\* heading, the scan not at its last line
NoEntryWithoutGenderWitness ==
    /\ pc = "scan"
    /\ currentSection.gender = Null
    /\ inTable
    /\ eventHeaders = <<"100m", "4x400mix">>
    /\ currentLine = "1400 9.46 3:10"
    /\ parseCrossReferencedRow(currentLine, eventHeaders, pointsColumnPosition[1]) # Null
    /\ tables = EmptyObject
    /\ linesRead < MaxLines

\* C16: when the prior export file cannot be loaded as valid structured data during a
\* merge, the failure is never fatal: a warning is issued, the in-memory tables are
\* exactly what they were before the merge attempt (no partial merge), and the
\* clean-and-sort and export steps still run.
FailedLoadLeavesTables ==
    [][pc = "scan" /\ pc' = "done" /\ "load" \in warnings' =>
            /\ pendingTables' = tables
            /\ tables' \in cleanAndSortData(tables)
            /\ outputFile' = Some(PrettyJson(tables'))
            /\ minifiedFile' = Some(MinifiedJson(tables'))
            /\ exitStatus' = Some(0)]_vars

LineRead == linesRead' = linesRead + 1

\* what detectSection returns for each line of the text
SectionInfoOf ==
    [line \in {Trim(text) : text \in Lines \cup TableLines} |-> detectSection(line)]

\* the line the step reads is one detectSection returns a result for
HeadingRead == LineRead /\ currentLine' # "" /\ SectionInfoOf[currentLine'] # Null

\* C18: after any line on which detectSection matches a gender or a category, inTable
\* is false: no subsequent data row adds an entry to the tables until a new header
\* line is detected, even though the previous header's event list is still held.
HeadingEndsTable ==
    [][/\ HeadingRead => ~inTable' /\ eventHeaders' = eventHeaders
       /\ LineRead /\ ~inTable => tables' = tables]_vars

\* a data row read after a heading that came after the header: the header's event
\* list is held, a gender is set, and nothing is stored
HeadingEndsTableWitness ==
    /\ pc = "scan"
    /\ currentLine = "1400 9.46 3:10"
    /\ ~inTable
    /\ eventHeaders = <<"100m", "4x400mix">>
    /\ currentSection.gender = Some("men")
    /\ tables = EmptyObject

\* C19: the section state is merge-updated: a heading line that matches only a
\* category leaves the current gender unchanged, a heading line that matches only a
\* gender leaves the current category unchanged, and header lines, data rows and
\* table-end markers never change gender or category.
SectionMergeUpdated ==
    [][LineRead =>
        IF HeadingRead
        THEN LET sectionInfo == SectionInfoOf[currentLine'][1]
             IN  /\ currentSection'.gender =
                        IF sectionInfo.gender = Null THEN currentSection.gender
                        ELSE sectionInfo.gender
                 /\ currentSection'.category =
                        IF sectionInfo.category = Null THEN currentSection.category
                        ELSE sectionInfo.category
        ELSE currentSection' = currentSection]_vars

\* a gender kept over a heading with a category only, and a category kept over a
\* heading with a gender only
SectionMergeUpdatedWitness ==
    /\ pc = "scan"
    /\ currentSection.category = Some("hurdles")
    /\ \/ currentLine = "Points 200m Hurdles" /\ currentSection.gender = Some("men")
       \/ currentLine = "Women" /\ currentSection.gender = Some("women")

\* C20: each non-empty line is offered to the section detector first: a line on which
\* detectSection returns a result is never interpreted as a header or as a data row,
\* so it leaves the active header event list, the points column side and the tables
\* unchanged, even if the line would also qualify as a header.
HeadingIsNoHeaderNoRow ==
    [][HeadingRead =>
            /\ eventHeaders' = eventHeaders
            /\ pointsColumnPosition' = pointsColumnPosition
            /\ tables' = tables]_vars

\* a heading that reads as a header of one event, met in a table of two events
\* under a gender: the two events are still the header
HeadingIsNoHeaderNoRowWitness ==
    /\ pc = "scan"
    /\ currentLine = "Points 200m Hurdles"
    /\ detectTableHeaders(currentLine) # Null
    /\ currentSection = [gender |-> Some("men"), category |-> Some("hurdles")]
    /\ eventHeaders = <<"100m", "4x400mix">>
    /\ Leaves(tables) # {}

\* the line is a candidate for a header: it has the points token first or last
IsCandidate(line) ==
    LET toks == SplitWhitespace(line)
    IN  Len(toks) >= 2 /\ (MatchesPoints(toks[1]) \/ MatchesPoints(toks[Len(toks)]))

\* the header a candidate line is, none when no descriptor of it normalizes
CandidateHeader(line) ==
    LET toks == SplitWhitespace(line)
        n == Len(toks)
    IN  IF MatchesPoints(toks[1]) THEN HeaderOf("left", SubSeq(toks, 2, n))
        ELSE HeaderOf("right", SubSeq(toks, 1, n - 1))

Candidates == {line \in TableLines : IsCandidate(line)}

CandidateHeaderOf == [line \in Candidates |-> CandidateHeader(line)]

\* C21: in detectTableHeaders a descriptor that normalizeEventName rejects is omitted
\* from the event list without aborting detection of the remaining descriptors; a
\* candidate line none of whose descriptors normalizes returns none, and such a line
\* leaves the active header, the points column side and inTable unchanged.
RejectedDescriptorsDropped ==
    [][LineRead /\ ~HeadingRead /\ currentLine' \in Candidates =>
        LET header == CandidateHeaderOf[currentLine']
        IN  /\ detectTableHeaders(currentLine') = header
            /\ IF header = Null
               THEN /\ eventHeaders' = eventHeaders
                    /\ pointsColumnPosition' = pointsColumnPosition
                    /\ inTable' = inTable
               ELSE /\ eventHeaders' = header[1].events
                    /\ pointsColumnPosition' = Some(header[1].pointsPosition)
                    /\ inTable']_vars

\* a candidate line without any event read in the table of a header whose first
\* descriptor was rejected and whose second was kept
RejectedDescriptorsDroppedWitness ==
    /\ pc = "scan"
    /\ currentLine = "Points xyz"
    /\ detectTableHeaders("Points xyz 100m") =
            Some([events |-> <<"100m">>, pointsPosition |-> "left"])
    /\ eventHeaders = <<"100m">>
    /\ pointsColumnPosition = Some("left")
    /\ inTable

\* the headers among the lines of the text, as they are written in them
WrittenHeader ==
    ("Points xyz 100m" :> [events |-> <<"100m">>, pointsPosition |-> "left"]) @@
    ("lj Points" :> [events |-> <<"lj">>, pointsPosition |-> "right"])

\* the table-end markers among the lines of the text
WrittenMarkers == {"Page 3"}

\* C22: the active header is replaced wholesale (event list and points side together)
\* by each newly detected header line, and when a table-end marker is seen while a
\* table is active the header event list is cleared and inTable becomes false, so no
\* later row adds an entry until another header line is detected.
HeaderReplacedAndCleared ==
    [][LineRead =>
        /\ currentLine' \in DOMAIN WrittenHeader =>
                /\ eventHeaders' = WrittenHeader[currentLine'].events
                /\ pointsColumnPosition' = Some(WrittenHeader[currentLine'].pointsPosition)
                /\ inTable'
        /\ currentLine' \in WrittenMarkers /\ inTable /\ eventHeaders # <<>> =>
                eventHeaders' = <<>> /\ ~inTable'
        /\ eventHeaders = <<>> /\ currentLine' \notin DOMAIN WrittenHeader =>
                tables' = tables /\ eventHeaders' = <<>>]_vars

\* a row read under a gender after a header with the points on the left, a header
\* with the points on the right in its place, and a page marker: no event is held
\* and nothing is stored
HeaderReplacedAndClearedWitness ==
    /\ pc = "scan"
    /\ currentLine = "1400 9.99 9.46"
    /\ currentSection.gender = Some("men")
    /\ pointsColumnPosition = Some("right")
    /\ eventHeaders = <<>>
    /\ ~inTable
    /\ linesRead = 5
    /\ tables = EmptyObject

\* the line is a row with a valid points token for the points side in force: an
\* integer numeral from 0 to 1500 where the side says
HasValidPointsToken(line, side) ==
    /\ line # ""
    /\ side # Null
    /\ LET tok == PointsToken(line, side[1])
       IN  IsIntegerNumeral(tok) /\ parseInt(tok)[1] \in 0..1500

\* C23: a malformed line (one that is neither a section heading, a header, a
\* table-end marker nor a row with a valid points token) contributes nothing: the
\* tables, the section, the active header, the points side and inTable are all
\* unchanged by it.
MalformedLineContributesNothing ==
    [][/\ LineRead
       /\ ~HeadingRead
       /\ currentLine' \notin DOMAIN WrittenHeader
       /\ currentLine' \notin WrittenMarkers
       /\ ~HasValidPointsToken(currentLine', pointsColumnPosition)
       => UNCHANGED <<tables, scanVars>>]_vars

StrictlyDescendingPoints ==
    pc = "done" =>
        \A leaf \in Leaves(tables) :
            LET entries == ListAt(tables, leaf)
            IN  \A i \in 1..(Len(entries) - 1) :
                    JsLess(entries[i + 1].points, entries[i].points)

\* the positions of the accepted row whose event key and performance are present
\* and whose category resolves, that file under the leaf
PositionsFiledAt(leaf) ==
    {i \in 1..Len(callEvents) :
        /\ callResult[1].performances[i] # Null
        /\ FilingCategory(callEvents[i], currentSection) = Some(leaf[2])
        /\ GenderForEvent(callEvents[i], currentSection.gender[1]) = leaf[1]
        /\ callEvents[i] = leaf[3]}

\* C26: for every data row the parser accepts (points anywhere from 0 to 1500) that
\* is processed while the section's gender is set, each position whose event key and
\* performance are both present and whose category resolves appends exactly one
\* entry {performance, points} to the list of that event.
AcceptedRowAppendsEntries ==
    pc = "stored" /\ callResult # Null /\ currentSection.gender # Null =>
        \A gender \in {"men", "mixed"}, category \in {"sprints", "jumps", "hurdles"},
           eventName \in StoreKeys :
            LET leaf == <<gender, category, eventName>>
                entries == IF leaf \in Leaves(tables) THEN ListAt(tables, leaf) ELSE <<>>
            IN  /\ Len(entries) = Cardinality(PositionsFiledAt(leaf))
                /\ \A i \in PositionsFiledAt(leaf) :
                        \E k \in 1..Len(entries) :
                            entries[k] = ObjectEntry(callResult[1].performances[i][1],
                                                     callResult[1].points)

\* the gender of the section information detectSection returned, none without
DetectedGender == IF callResult = Null THEN Null ELSE callResult[1].gender

\* the lower-cased line holds one of the two spellings
HoldsEither(a, b) ==
    Includes(ToLowerCase(callLine), a) \/ Includes(ToLowerCase(callLine), b)

\* C27: detectSection resolves gender with the precedence women, then men, then
\* mixed: a line containing "women" or "femmes" (in any case) yields women although
\* "women" contains "men"; men is yielded only for a line containing "men" or
\* "hommes" and not "women"; mixed is yielded only for a line containing "mixed" or
\* "mixte" that matches neither of the former.
GenderPrecedence ==
    pc = "sectioned" =>
        /\ HoldsEither("women", "femmes") => DetectedGender = Some("women")
        /\ DetectedGender = Some("men") =>
                HoldsEither("men", "hommes") /\ ~HoldsEither("women", "women")
        /\ DetectedGender = Some("mixed") =>
                /\ HoldsEither("mixed", "mixte")
                /\ ~HoldsEither("women", "femmes")
                /\ ~HoldsEither("men", "hommes")
        /\ DetectedGender = Null =>
                /\ ~HoldsEither("women", "femmes")
                /\ ~HoldsEither("men", "hommes")
                /\ ~HoldsEither("mixed", "mixte")

\* a line that holds the word of every gender: women is yielded
GenderPrecedenceWitness ==
    /\ pc = "sectioned"
    /\ callLine = "Mixed Women"
    /\ DetectedGender = Some("women")

\* the header lines written out column by column: the event key of each descriptor
\* after the points column, none for a descriptor that is no event
WrittenColumns ==
    ("Points xyz 100m" :> <<Null, Some("100m")>>) @@ ("lj Points" :> <<Some("lj")>>)

\* the lines of the table that are rows
WrittenRows == {"1400 9.99 9.46", "7.20 1300"}

\* the number of entries the leaf holds in the tables, 0 when it is not there
HeldAt(tbl, leaf) == IF leaf \in Leaves(tbl) THEN Len(ListAt(tbl, leaf)) ELSE 0

\* C28: column alignment is preserved from header to tables: every entry stored
\* under event key e by a data row carries the performance found in the column of
\* that row that sits under e's descriptor in the header line, also when another
\* descriptor of the same header line was rejected by the normalizer.
ColumnsStayAligned ==
    [][/\ LineRead
       /\ currentLine \in DOMAIN WrittenColumns
       /\ currentLine' \in WrittenRows
       => \A leaf \in Leaves(tables') :
            \A k \in (HeldAt(tables, leaf) + 1)..HeldAt(tables', leaf) :
                LET columns == WrittenColumns[currentLine]
                    found == PerformanceTokens(currentLine', pointsColumnPosition[1])
                IN  \E c \in 1..Len(columns) :
                        /\ columns[c] = Some(leaf[3])
                        /\ c <= Len(found)
                        /\ ListAt(tables', leaf)[k].performance = JStr(found[c])]_vars

\* a step is a call of load()
LoadCalled == loadCalls' = loadCalls + 1

\* C29: for any interleaving of load() calls with no clear() in between, at most one
\* fetch is in flight at a time: a call made while a load is pending receives the
\* pending promise and starts no fetch, a call made after a successful load receives
\* the cached data without fetching, and after a failed load data stays null and
\* isLoading is false again, so that a later load() starts a new fetch.
OneFetchAtATime ==
    [][/\ Cardinality(InFlight') <= 1
       /\ LoadCalled /\ InFlight # {} =>
            /\ fetches' = fetches
            /\ loadReturn' = Some([kind |-> "promise",
                                   of |-> Some(CHOOSE f \in InFlight : TRUE)])
       /\ LoadCalled /\ (\E f \in 1..Len(fetches) : fetches[f].state = "fulfilled") =>
            /\ fetches' = fetches
            /\ loadReturn' = Some([kind |-> "data", of |-> data])
            /\ data # Null
       /\ (\E f \in InFlight : fetches'[f].state = "rejected") =>
            /\ data' = Null
            /\ ~isLoading'
       /\ (LoadCalled /\ fetches # <<>> /\ fetches[Len(fetches)].state = "rejected") =>
            /\ Len(fetches') = Len(fetches) + 1
            /\ InFlight' = {Len(fetches')}]_vars

\* a load failed, the next call started a second fetch, a call made while that one
\* was pending received its promise, and after its success a call received the data
OneFetchAtATimeWitness ==
    /\ pc = "loader"
    /\ loadCalls = 4
    /\ Len(fetches) = 2
    /\ fetches[1].state = "rejected"
    /\ fetches[2].state = "fulfilled"
    /\ loadReturn = Some([kind |-> "data", of |-> Some(2)])

\* C30: after clear() is called, isDataLoaded() stays false and the read accessors
\* keep returning empty results until a load() issued after the clear completes,
\* also when clear() is called while an earlier load() is still in flight and that
\* earlier fetch completes afterwards.
ClearedUntilReloaded ==
    /\ clearCalls > 0
    /\ ~\E f \in 1..Len(fetches) :
            fetches[f].clears = clearCalls /\ fetches[f].state = "fulfilled"
    => /\ ~isDataLoaded
       /\ getGenders = <<>>
       /\ getCategories("men") = <<>>

=============================================================================
